---- MODULE Spec2Model ----
(***************************************************************************)
(* git-knit: the rebuild engine (KnitRebuilder.rebuild), the function-based *)
(* rebuild_working_branch, the commit classifier and the knit config stores *)
(* (KnitConfigManager with its colon-joined format, and config_functions),  *)
(* modelled over an explicit git repository: a commit graph, branch refs,   *)
(* HEAD, the working tree, the stash stack and the key-value config store.  *)
(*                                                                         *)
(* Content model.  Every commit authored by the user introduces one change  *)
(* (its "atom", the id of the commit that first introduced it) to one file. *)
(* A merge commit introduces nothing; a cherry-picked copy carries the atom *)
(* of the commit it copies.  The tree of a commit is the set of atoms of    *)
(* its ancestors.  Two sides conflict when each holds a change to the same  *)
(* file that the other lacks.                                               *)
(***************************************************************************)
EXTENDS Integers, Sequences, FiniteSets, TLC

VARIABLES
    commits,    \* the object store: commit id (index) -> [parents, atom, file]
    refs,       \* refs/heads: branch name -> commit id (domain = existing branches)
    head,       \* the current branch (HEAD)
    wt,         \* uncommitted edit in the working tree: "clean" or the file edited
    unmerged,   \* conflict markers / unmerged index entries present
    inprog,     \* operation left in progress: "none", "merge" or "cherry-pick"
    stash,      \* the stash stack, top first: <<[file, against]>>
    gitconfig,  \* git config: key -> value
    pc,         \* position of the running command
    rb,         \* locals of the running rebuild
    err,        \* the exception the last command ended with: [kind, subject]
    pre,        \* the repository as it was when the running command was called
    nrebuilds,  \* number of rebuilds started so far
    call        \* the last call made on the config store or command run, with its outcome

vars == <<commits, refs, head, wt, unmerged, inprog, stash, gitconfig,
          pc, rb, err, pre, nrebuilds, call>>

repo == <<commits, refs, head, wt, unmerged, inprog, stash, gitconfig>>

-----------------------------------------------------------------------------
(* Bounds of the model *)

MaxUserCommits == 2

Files == {"x", "y"}
EditFiles == {"x"}

WORK == "work"
BASE == "main"
FeatureNames == {"b1", "b2"}
FeatureLists == {<<>>, <<"b1">>, <<"b1", "b2">>}

-----------------------------------------------------------------------------
(* The git object model *)

NoFile == "-"

Min(S) == CHOOSE m \in S : \A x \in S : m <= x

RECURSIVE SetToSeq(_)
SetToSeq(S) == IF S = {} THEN <<>> ELSE <<Min(S)>> \o SetToSeq(S \ {Min(S)})

Range(s) == {s[i] : i \in DOMAIN s}

RECURSIVE AncIn(_, _)
AncIn(cs, c) == {c} \cup UNION {AncIn(cs, cs[c].parents[i]) : i \in DOMAIN cs[c].parents}

Anc(c) == AncIn(commits, c)

TreeIn(cs, c) == {cs[x].atom : x \in AncIn(cs, c)} \ {0}

Tree(c) == TreeIn(commits, c)

OnFileIn(cs, T, f) == {a \in T : cs[a].file = f}

OnFile(T, f) == OnFileIn(commits, T, f)

UserCommits == {c \in DOMAIN commits : commits[c].atom = c}

Tip(b) == refs[b]

Put(f, k, v) == [x \in DOMAIN f \cup {k} |-> IF x = k THEN v ELSE f[x]]

Drop(f, k) == [x \in DOMAIN f \ {k} |-> f[x]]

-----------------------------------------------------------------------------
(* The repository as one value, so that the gateway's operations are        *)
(* functions from a repository to a result and a repository.                *)

Cur == [commits |-> commits, refs |-> refs, head |-> head, wt |-> wt,
        unmerged |-> unmerged, inprog |-> inprog, stash |-> stash]

Install(R) ==
    /\ commits' = R.commits
    /\ refs' = R.refs
    /\ head' = R.head
    /\ wt' = R.wt
    /\ unmerged' = R.unmerged
    /\ inprog' = R.inprog
    /\ stash' = R.stash

\* git rev-parse <branch>: the commit a branch name resolves to, 0 if none
Rev(R, b) == IF b \in DOMAIN R.refs THEN R.refs[b] ELSE 0

HeadTip(R) == Rev(R, R.head)

\* A new commit on the current branch
CommitOnHead(R, c) ==
    [R EXCEPT !.commits = Append(R.commits, c),
              !.refs = Put(R.refs, R.head, Len(R.commits) + 1)]

-----------------------------------------------------------------------------
(* GitExecutor: the VCS gateway *)

get_current_branch(R) == R.head

is_clean_working_tree(R) == R.wt = "clean" /\ ~R.unmerged

branch_exists(R, b) == b \in DOMAIN R.refs

\* git branch -f <branch> <start>: a taken name is moved to the start point
create_branch_force(R, b, start) ==
    IF b = R.head \/ start = 0
    THEN [ok |-> FALSE, R |-> R]
    ELSE [ok |-> TRUE, R |-> [R EXCEPT !.refs = Put(R.refs, b, start)]]

\* git branch <branch> <start>: fails when the name is taken or the start
\* point does not resolve (start is a commit id, 0 when unresolved)
create_branch(R, b, start) ==
    IF b \in DOMAIN R.refs \/ start = 0
    THEN [ok |-> FALSE, R |-> R]
    ELSE [ok |-> TRUE, R |-> [R EXCEPT !.refs = Put(R.refs, b, start)]]

\* git checkout <branch>: refuses an unmerged index and a local edit to a
\* file that differs between the two tips; switching branch drops the state
\* of an operation in progress
checkout(R, b) ==
    IF \/ b \notin DOMAIN R.refs
       \/ R.unmerged
       \/ /\ R.wt # "clean"
          /\ OnFileIn(R.commits, TreeIn(R.commits, R.refs[b]), R.wt)
               # OnFileIn(R.commits, TreeIn(R.commits, HeadTip(R)), R.wt)
    THEN [ok |-> FALSE, R |-> R]
    ELSE [ok |-> TRUE, R |-> [R EXCEPT !.head = b, !.inprog = "none"]]

\* What git merge --no-ff <branch> does on the current branch
MergeOutcome(R, b) ==
    LET h == HeadTip(R)
        t == Rev(R, b)
        ours == TreeIn(R.commits, h) \ TreeIn(R.commits, t)
        theirs == TreeIn(R.commits, t) \ TreeIn(R.commits, h)
    IN  IF t = 0 \/ R.unmerged \/ R.inprog # "none" THEN "refused"
        ELSE IF t \in AncIn(R.commits, h) THEN "uptodate"
        ELSE IF R.wt # "clean" /\ OnFileIn(R.commits, theirs, R.wt) # {} THEN "refused"
        ELSE IF \E a \in ours, a2 \in theirs : R.commits[a].file = R.commits[a2].file
             THEN "conflict"
        ELSE "merged"

MergeCommit(h, t) == [parents |-> <<h, t>>, atom |-> 0, file |-> NoFile]

\* A merge abandoned without merge --abort
merge_abort_missing(R) == R

\* git merge --abort after a failed merge: the tree is as before the merge
merge_abort(R) == [R EXCEPT !.inprog = "none", !.unmerged = FALSE]

\* a merge without --no-ff: the branch is moved forward when it can be
merge_branch_ff(R, b) ==
    LET o == MergeOutcome(R, b)
    IN  IF o = "merged"
        THEN IF HeadTip(R) \in AncIn(R.commits, Rev(R, b))
             THEN [ok |-> TRUE, R |-> [R EXCEPT !.refs = Put(R.refs, R.head, Rev(R, b))]]
             ELSE [ok |-> TRUE, R |-> CommitOnHead(R, MergeCommit(HeadTip(R), Rev(R, b)))]
        ELSE IF o = "uptodate" THEN [ok |-> TRUE, R |-> R]
        ELSE IF o = "conflict"
        THEN [ok |-> FALSE,
              R |-> merge_abort([R EXCEPT !.inprog = "merge", !.unmerged = TRUE])]
        ELSE [ok |-> FALSE, R |-> R]

\* merge_branch: merge --no-ff --no-edit; on a non-zero exit, merge --abort
\* and GitConflictError
merge_branch(R, b) ==
    LET o == MergeOutcome(R, b)
    IN  IF o = "merged"
        THEN [ok |-> TRUE, R |-> CommitOnHead(R, MergeCommit(HeadTip(R), Rev(R, b)))]
        ELSE IF o = "uptodate" THEN [ok |-> TRUE, R |-> R]
        ELSE IF o = "conflict"
        THEN [ok |-> FALSE,
              R |-> merge_abort([R EXCEPT !.inprog = "merge", !.unmerged = TRUE])]
        ELSE [ok |-> FALSE, R |-> R]

\* What git cherry-pick <commit> does on the current branch: a three-way
\* merge of the commit's change against its parent
PickOutcome(R, c) ==
    LET h == HeadTip(R)
        f == R.commits[c].file
        ptree == IF R.commits[c].parents = <<>> THEN {}
                 ELSE TreeIn(R.commits, R.commits[c].parents[1])
    IN  IF R.unmerged \/ R.inprog # "none" \/ R.wt = f THEN "refused"
        ELSE IF R.commits[c].atom \in TreeIn(R.commits, h) THEN "empty"
        ELSE IF OnFileIn(R.commits, TreeIn(R.commits, h), f)
                  # OnFileIn(R.commits, ptree, f)
             THEN "conflict"
        ELSE "picked"

PickCommit(R, c) ==
    [parents |-> <<HeadTip(R)>>, atom |-> R.commits[c].atom, file |-> R.commits[c].file]

\* cherry_pick that aborts on failure, as merge_branch does
cherry_pick_abort(R, c) ==
    LET o == PickOutcome(R, c)
    IN  IF o = "picked"
        THEN [ok |-> TRUE, R |-> CommitOnHead(R, PickCommit(R, c))]
        ELSE [ok |-> FALSE, R |-> R]

\* cherry_pick: on a non-zero exit GitConflictError, the conflict state is left
cherry_pick(R, c) ==
    LET o == PickOutcome(R, c)
    IN  IF o = "picked"
        THEN [ok |-> TRUE, R |-> CommitOnHead(R, PickCommit(R, c))]
        ELSE IF o = "conflict"
        THEN [ok |-> FALSE, R |-> [R EXCEPT !.inprog = "cherry-pick", !.unmerged = TRUE]]
        ELSE IF o = "empty"
        THEN [ok |-> FALSE, R |-> [R EXCEPT !.inprog = "cherry-pick"]]
        ELSE [ok |-> FALSE, R |-> R]

\* git branch -D <branch>: fails for a missing branch and for the current one
delete_branch(R, b) ==
    IF b \notin DOMAIN R.refs \/ b = R.head
    THEN [ok |-> FALSE, R |-> R]
    ELSE [ok |-> TRUE, R |-> [R EXCEPT !.refs = Drop(R.refs, b)]]

\* git branch -f <branch> <target>: fails for the current branch
branch_force(R, b, target) ==
    IF b = R.head \/ Rev(R, target) = 0
    THEN [ok |-> FALSE, R |-> R]
    ELSE [ok |-> TRUE, R |-> [R EXCEPT !.refs = Put(R.refs, b, Rev(R, target))]]

\* A stash entry: the file edited and the version of it (the changes to it in
\* HEAD) that the edit was made against
StashEntry(R) ==
    [file |-> R.wt, against |-> OnFileIn(R.commits, TreeIn(R.commits, HeadTip(R)), R.wt)]

\* stash_push: False on a clean tree; otherwise git stash push
\* --include-untracked with check=False, and True unless git answers "no
\* local changes" (git refuses an unmerged index, and the answer is then True)
stash_push(R) ==
    IF is_clean_working_tree(R) THEN [ret |-> FALSE, R |-> R]
    ELSE IF R.unmerged THEN [ret |-> TRUE, R |-> R]
    ELSE [ret |-> TRUE,
          R |-> [R EXCEPT !.stash = <<StashEntry(R)>> \o R.stash, !.wt = "clean"]]

\* stash_pop: pop --index, then pop; KnitError when both fail.  A pop that
\* conflicts keeps the stash entry and leaves the conflict in the tree.
stash_pop(R) ==
    IF R.stash = <<>> \/ R.unmerged \/ R.wt # "clean"
    THEN [ok |-> FALSE, R |-> R]
    ELSE LET e == Head(R.stash)
         IN  IF OnFileIn(R.commits, TreeIn(R.commits, HeadTip(R)), e.file) # e.against
             THEN [ok |-> FALSE, R |-> [R EXCEPT !.wt = e.file, !.unmerged = TRUE]]
             ELSE [ok |-> TRUE, R |-> [R EXCEPT !.wt = e.file, !.stash = Tail(R.stash)]]

IsMerge(cs, c) == Len(cs[c].parents) >= 2

\* rev-list without --reverse: newest first
RECURSIVE Reverse(_)
Reverse(s) == IF s = <<>> THEN <<>> ELSE Append(Reverse(Tail(s)), Head(s))

get_local_working_branch_commits_newest_first(R, working, base, features) ==
    IF \/ Rev(R, working) = 0
       \/ Rev(R, base) = 0
       \/ \E i \in DOMAIN features : Rev(R, features[i]) = 0
    THEN <<>>
    ELSE LET excluded == AncIn(R.commits, Rev(R, base))
                           \cup UNION {AncIn(R.commits, Rev(R, features[i])) :
                                         i \in DOMAIN features}
         IN  Reverse(SetToSeq({c \in AncIn(R.commits, Rev(R, working)) \ excluded :
                                 Len(R.commits[c].parents) < 2}))

\* the oldest local commit left out of the range
get_local_working_branch_commits_skip_oldest(R, working, base, features) ==
    IF \/ Rev(R, working) = 0
       \/ Rev(R, base) = 0
       \/ \E i \in DOMAIN features : Rev(R, features[i]) = 0
    THEN <<>>
    ELSE LET excluded == AncIn(R.commits, Rev(R, base))
                           \cup UNION {AncIn(R.commits, Rev(R, features[i])) :
                                         i \in DOMAIN features}
             all == SetToSeq({c \in AncIn(R.commits, Rev(R, working)) \ excluded :
                                Len(R.commits[c].parents) < 2})
         IN  IF all = <<>> THEN <<>> ELSE Tail(all)

\* the --not <features> part left out
get_local_working_branch_commits_features_kept(R, working, base, features) ==
    IF \/ Rev(R, working) = 0
       \/ Rev(R, base) = 0
       \/ \E i \in DOMAIN features : Rev(R, features[i]) = 0
    THEN <<>>
    ELSE SetToSeq({c \in AncIn(R.commits, Rev(R, working)) \ AncIn(R.commits, Rev(R, base)) :
                     Len(R.commits[c].parents) < 2})

\* get_local_working_branch_commits: rev-list --reverse --no-merges
\* base..working --not features; [] when git fails (a name does not resolve)
get_local_working_branch_commits(R, working, base, features) ==
    IF \/ Rev(R, working) = 0
       \/ Rev(R, base) = 0
       \/ \E i \in DOMAIN features : Rev(R, features[i]) = 0
    THEN <<>>
    ELSE LET excluded == AncIn(R.commits, Rev(R, base))
                           \cup UNION {AncIn(R.commits, Rev(R, features[i])) :
                                         i \in DOMAIN features}
         IN  SetToSeq({c \in AncIn(R.commits, Rev(R, working)) \ excluded :
                         ~IsMerge(R.commits, c)})

-----------------------------------------------------------------------------
(* Text.  A str is a string; what Python's split and join do to it is      *)
(* computed character by character.                                         *)

Max(S) == CHOOSE x \in S : \A y \in S : y <= x

CharAt(s, i) == SubSeq(s, i, i)

Places(s, c) == {i \in 1..Len(s) : CharAt(s, i) = c}

\* value.split(sep): the pieces between the separators, empty pieces kept;
\* a value without a separator is its own single piece
split(value, sep) ==
    LET at == SetToSeq(Places(value, sep))
        from(k) == IF k = 1 THEN 1 ELSE at[k - 1] + 1
        to(k) == IF k = Len(at) + 1 THEN Len(value) ELSE at[k] - 1
    IN  [k \in 1..(Len(at) + 1) |-> SubSeq(value, from(k), to(k))]

\* sep.join(parts)
RECURSIVE join(_, _)
join(sep, parts) ==
    IF parts = <<>> THEN ""
    ELSE IF Len(parts) = 1 THEN parts[1]
    ELSE parts[1] \o sep \o join(sep, Tail(parts))

StartsWith(s, prefix) ==
    Len(s) >= Len(prefix) /\ SubSeq(s, 1, Len(prefix)) = prefix

-----------------------------------------------------------------------------
(* git config, as the gateways reach it.  A key is section.variable or      *)
(* section.subsection.variable.  git takes a variable name made of letters, *)
(* digits and "-", holds it in lower case and finds it whatever the case it *)
(* is asked in; `git config <key> <value>` replaces the value of the key.   *)

\* Of the characters names are written with here, those git refuses in a
\* variable name
NonVariableChars == {"_", "/", ":"}

lower_char(c) == CASE c = "W" -> "w" [] c = "K" -> "k" [] OTHER -> c

RECURSIVE lower(_)
lower(s) == IF s = "" THEN "" ELSE lower_char(CharAt(s, 1)) \o lower(Tail(s))

\* [dot, name]: where the last "." of the key stands, 0 if it has none, and
\* the variable name after it
variable_of(key) ==
    LET dots == Places(key, ".")
        dot == IF dots = {} THEN 0 ELSE Max(dots)
    IN  [dot |-> dot, name |-> SubSeq(key, dot + 1, Len(key))]

git_valid_key(key) ==
    LET v == variable_of(key)
    IN  /\ v.dot > 1
        /\ v.name # ""
        /\ \A c \in NonVariableChars : Places(v.name, c) = {}

\* The key as git holds it
git_key(key) ==
    LET v == variable_of(key)
    IN  SubSeq(key, 1, v.dot) \o lower(v.name)

\* GitExecutor.get_config: git config --get <key>; [ok, value]
executor_get_config(G, key) ==
    LET held == git_key(key)
    IN  IF git_valid_key(key) /\ held \in DOMAIN G
        THEN [ok |-> TRUE, value |-> G[held]]
        ELSE [ok |-> FALSE, value |-> ""]

\* GitExecutor.set_config: git config <key> <value>, which fails on a key
\* git refuses
set_config_ok(key) == git_valid_key(key)

set_config(G, key, value) == Put(G, git_key(key), value)

\* GitExecutor.unset_config: git config --unset <key>, a failure ignored
unset_config(G, key) == IF git_valid_key(key) THEN Drop(G, git_key(key)) ELSE G

\* GitExecutor.list_config_keys: git config --get-regexp ^<prefix>
list_config_keys(G, prefix) == {key \in DOMAIN G : StartsWith(key, prefix)}

-----------------------------------------------------------------------------
(* KnitConfigManager: one colon-joined value per working branch *)

CONFIG_PREFIX == "knit."

get_config_key(working) == CONFIG_PREFIX \o working

KnitConfig(w, b, fs) ==
    [working_branch |-> w, base_branch |-> b, feature_branches |-> fs]

parse_config_keep_base(value) ==
    LET parts == split(value, ":")
    IN  KnitConfig(parts[1], parts[2],
                   SelectSeq(SubSeq(parts, 2, Len(parts)), LAMBDA q : q # ""))

parse_config(value) ==
    LET parts == split(value, ":")
    IN  KnitConfig(parts[1], parts[2],
                   IF Len(parts) > 2
                   THEN SelectSeq(SubSeq(parts, 3, Len(parts)), LAMBDA q : q # "")
                   ELSE <<>>)

parse_ok_three(value) == Len(split(value, ":")) >= 3

parse_ok(value) == Len(split(value, ":")) >= 2

serialize_config(config) ==
    join(":", <<config.working_branch, config.base_branch>> \o config.feature_branches)

is_configured(G, working) ==
    LET got == executor_get_config(G, get_config_key(working))
    IN  got.ok /\ parse_ok(got.value)

get_config(G, working) ==
    parse_config(executor_get_config(G, get_config_key(working)).value)

init_knit_ok(working) == set_config_ok(get_config_key(working))

init_knit(G, working, base, features) ==
    set_config(G, get_config_key(working),
               serialize_config(KnitConfig(working, base, features)))

add_branch_ok(G, working, branch) ==
    /\ is_configured(G, working)
    /\ branch \notin Range(get_config(G, working).feature_branches)

add_branch_front(G, working, branch) ==
    LET config == get_config(G, working)
    IN  set_config(G, get_config_key(working),
            serialize_config(KnitConfig(config.working_branch, config.base_branch,
                                        <<branch>> \o config.feature_branches)))

add_branch(G, working, branch) ==
    LET config == get_config(G, working)
    IN  set_config(G, get_config_key(working),
            serialize_config(KnitConfig(config.working_branch, config.base_branch,
                                        Append(config.feature_branches, branch))))

remove_branch_ok(G, working, branch) ==
    /\ is_configured(G, working)
    /\ branch \in Range(get_config(G, working).feature_branches)

remove_branch_reordered(G, working, branch) ==
    LET config == get_config(G, working)
    IN  set_config(G, get_config_key(working),
            serialize_config(KnitConfig(config.working_branch, config.base_branch,
                                        Reverse(SelectSeq(config.feature_branches,
                                                          LAMBDA b : b # branch)))))

remove_branch(G, working, branch) ==
    LET config == get_config(G, working)
    IN  set_config(G, get_config_key(working),
            serialize_config(KnitConfig(config.working_branch, config.base_branch,
                                        SelectSeq(config.feature_branches,
                                                  LAMBDA b : b # branch))))

\* The names after the prefix of the keys git lists
list_working_branches(G) ==
    {SubSeq(key, Len(CONFIG_PREFIX) + 1, Len(key)) :
        key \in list_config_keys(G, CONFIG_PREFIX)}

is_initialized(G) == list_working_branches(G) # {}

resolve_working_branch_current_first(G, current, explicit) ==
    LET configured == list_working_branches(G)
    IN  IF current \in configured THEN [ok |-> TRUE, branch |-> current]
        ELSE IF explicit # "" /\ explicit \in configured
        THEN [ok |-> TRUE, branch |-> explicit]
        ELSE [ok |-> FALSE, branch |-> ""]

\* [ok, branch]; an explicit "" is no explicit name, as None is
resolve_working_branch(G, current, explicit) ==
    LET configured == list_working_branches(G)
    IN  IF explicit # ""
        THEN IF explicit \in configured THEN [ok |-> TRUE, branch |-> explicit]
             ELSE [ok |-> FALSE, branch |-> ""]
        ELSE IF current \in configured THEN [ok |-> TRUE, branch |-> current]
        ELSE IF Cardinality(configured) = 1
        THEN [ok |-> TRUE, branch |-> CHOOSE w \in configured : TRUE]
        ELSE [ok |-> FALSE, branch |-> ""]

delete_config(G, working) == unset_config(G, get_config_key(working))

\* A call on the config store and what came of it
NoCall == [op |-> "none", working |-> "", base |-> "", branch |-> "",
           features |-> <<>>, value |-> "", config |-> KnitConfig("", "", <<>>),
           raised |-> "", ret_value |-> "", ret_config |-> KnitConfig("", "", <<>>)]

-----------------------------------------------------------------------------
(* Command state *)

NoErr == [kind |-> "none", branch |-> "", commit |-> 0]

Error(kind, branch, commit) == [kind |-> kind, branch |-> branch, commit |-> commit]

NoRb == [config |-> KnitConfig("", "", <<>>), checkout |-> FALSE, current |-> "",
         was_on_working |-> FALSE, stash_created |-> FALSE, backup_branch |-> "",
         temp_branch |-> "", saved_local_commits |-> <<>>, fi |-> 0, ci |-> 0]

NoPre == [refs |-> <<>>, head |-> "", wt |-> "clean", stash |-> <<>>, ncommits |-> 0,
          unmerged |-> FALSE, inprog |-> "none"]

Snapshot(R) == [refs |-> R.refs, head |-> R.head, wt |-> R.wt, stash |-> R.stash,
                ncommits |-> Len(R.commits), unmerged |-> R.unmerged,
                inprog |-> R.inprog]

\* A stash entry from before the knit: an edit to y against the root commit
OlderStash == [file |-> "y", against |-> {}]

Init ==
    /\ commits = <<[parents |-> <<>>, atom |-> 1, file |-> "x"]>>
    /\ refs = [b \in {BASE} |-> 1]
    /\ head = BASE
    /\ wt = "clean"
    /\ unmerged = FALSE
    /\ inprog = "none"
    /\ stash \in {<<>>, <<OlderStash>>}
    /\ gitconfig = <<>>
    /\ pc = "idle"
    /\ rb = NoRb
    /\ err = NoErr
    /\ pre = NoPre
    /\ nrebuilds = 0
    /\ call = NoCall

Idle == pc = "idle"

CmdUnchanged == UNCHANGED <<pc, rb, err, pre, nrebuilds, call>>

-----------------------------------------------------------------------------
(* The user's own git commands, between knit commands.  The user composes   *)
(* the knit from a settled tree: with an uncommitted edit or a conflict in  *)
(* the tree, the user stashes, rebuilds or resets.                          *)

Settled == is_clean_working_tree(Cur) /\ inprog = "none"

\* The user composes the repository before the first rebuild
Composing == Idle /\ Settled /\ nrebuilds = 0

\* git branch <feature> main
GitBranch(b) ==
    /\ Composing
    /\ b \notin DOMAIN refs
    /\ Install(create_branch(Cur, b, Rev(Cur, BASE)).R)
    /\ UNCHANGED gitconfig
    /\ CmdUnchanged

\* git checkout <branch>
GitCheckout(b) ==
    /\ Composing
    /\ b \in DOMAIN refs
    /\ b # head
    /\ checkout(Cur, b).ok
    /\ Install(checkout(Cur, b).R)
    /\ UNCHANGED gitconfig
    /\ CmdUnchanged

\* edit file f; git commit -a
GitCommit(f) ==
    /\ Composing
    /\ Cardinality(UserCommits) <= MaxUserCommits
    /\ Install(CommitOnHead(Cur, [parents |-> <<HeadTip(Cur)>>,
                                  atom |-> Len(commits) + 1, file |-> f]))
    /\ UNCHANGED gitconfig
    /\ CmdUnchanged

\* edit file f and leave it uncommitted
GitEdit(f) ==
    /\ Composing
    /\ wt' = f
    /\ UNCHANGED <<commits, refs, head, unmerged, inprog, stash, gitconfig>>
    /\ CmdUnchanged

\* git cherry-pick --abort / git reset --hard: give up a conflicted state or
\* an uncommitted edit
GitReset ==
    /\ Idle
    /\ ~Settled
    /\ unmerged' = FALSE
    /\ inprog' = "none"
    /\ wt' = "clean"
    /\ UNCHANGED <<commits, refs, head, stash, gitconfig>>
    /\ CmdUnchanged

-----------------------------------------------------------------------------
(* The knit commands that compose a knit *)

\* The merge loop of init: stops at the first missing branch or conflict
RECURSIVE MergeEach(_, _)
MergeEach(R, branches) ==
    IF branches = <<>> \/ ~branch_exists(R, Head(branches)) THEN R
    ELSE LET r == merge_branch(R, Head(branches))
         IN  IF r.ok THEN MergeEach(r.R, Tail(branches)) ELSE r.R

\* git knit init work main <branches>
KnitInit(branches) ==
    /\ Composing
    /\ ~is_configured(gitconfig, WORK)
    /\ branch_exists(Cur, BASE)
    /\ get_current_branch(Cur) # WORK
    /\ LET R1 == IF ~branch_exists(Cur, WORK)
                 THEN create_branch(Cur, WORK, Rev(Cur, BASE)).R
                 ELSE Cur
           co == checkout(R1, WORK)
       IN  /\ gitconfig' = init_knit(gitconfig, WORK, BASE, branches)
           /\ IF co.ok THEN Install(MergeEach(co.R, branches)) ELSE Install(R1)
    /\ CmdUnchanged

\* git knit add <branch>
KnitAdd(b) ==
    /\ Idle
    /\ Settled
    /\ is_configured(gitconfig, WORK)
    /\ branch_exists(Cur, b)
    /\ add_branch_ok(gitconfig, WORK, b)
    /\ gitconfig' = add_branch(gitconfig, WORK, b)
    /\ LET co == checkout(Cur, WORK)
       IN  IF co.ok THEN Install(merge_branch(co.R, b).R) ELSE Install(Cur)
    /\ CmdUnchanged

\* git knit remove <branch>
KnitRemove(b) ==
    /\ Composing
    /\ remove_branch_ok(gitconfig, WORK, b)
    /\ gitconfig' = remove_branch(gitconfig, WORK, b)
    /\ UNCHANGED <<commits, refs, head, wt, unmerged, inprog, stash>>
    /\ CmdUnchanged

-----------------------------------------------------------------------------
(* KnitRebuilder.rebuild, one action per git command it runs *)

Fail(kind, branch, commit) ==
    /\ pc' = "failed"
    /\ err' = Error(kind, branch, commit)

Goto(label) == pc' = label /\ err' = err

TempName(working) == working \o ".rebuilt"

BackupName(working, sha) == "knit/backup/" \o working \o "-" \o ToString(sha)

\* the local commits forgotten
AfterFeatures_nopicks(r) == "rb_publish"

AfterFeatures(r) == IF r.saved_local_commits # <<>> THEN "rb_pick" ELSE "rb_publish"

AfterCheckoutTemp(r) ==
    IF r.config.feature_branches # <<>> THEN "rb_feature" ELSE AfterFeatures(r)

\* rebuild(config, checkout): record the current branch, stash a dirty tree
RebuildStart(co) ==
    /\ Idle
    /\ is_configured(gitconfig, WORK)
    /\ LET config == get_config(gitconfig, WORK)
           current == get_current_branch(Cur)
           st == IF ~is_clean_working_tree(Cur) THEN stash_push(Cur)
                 ELSE [ret |-> FALSE, R |-> Cur]
       IN  /\ rb' = [NoRb EXCEPT !.config = config,
                                 !.checkout = co,
                                 !.current = current,
                                 !.was_on_working = (current = config.working_branch),
                                 !.stash_created = st.ret,
                                 !.temp_branch = TempName(config.working_branch)]
           /\ Install(st.R)
    /\ pre' = Snapshot(Cur)
    /\ nrebuilds' = nrebuilds + 1
    /\ pc' = "rb_classify"
    /\ err' = NoErr
    /\ UNCHANGED <<gitconfig, call>>

\* the local commits of an existing working branch; leave the working branch
RebuildClassify ==
    /\ pc = "rb_classify"
    /\ IF branch_exists(Cur, rb.config.working_branch)
       THEN /\ rb' = [rb EXCEPT !.saved_local_commits =
                        get_local_working_branch_commits(Cur, rb.config.working_branch,
                            rb.config.base_branch, rb.config.feature_branches)]
            /\ IF rb.was_on_working
               THEN LET r == checkout(Cur, rb.config.base_branch)
                    IN  /\ Install(r.R)
                        /\ IF r.ok THEN Goto("rb_backup")
                           ELSE Fail("CalledProcessError", rb.config.base_branch, 0)
               ELSE Install(Cur) /\ Goto("rb_backup")
       ELSE /\ rb' = rb
            /\ Install(Cur)
            /\ Goto("rb_temp")
    /\ UNCHANGED <<gitconfig, pre, nrebuilds, call>>

\* the backup ref made at the base branch's tip
RebuildBackup_atBase ==
    /\ pc = "rb_backup"
    /\ LET sha == Rev(Cur, rb.config.working_branch)
           name == BackupName(rb.config.working_branch, sha)
           r == create_branch(Cur, name, Rev(Cur, rb.config.base_branch))
       IN  IF sha # 0
           THEN /\ rb' = [rb EXCEPT !.backup_branch = name]
                /\ Install(r.R)
                /\ IF r.ok THEN Goto("rb_temp") ELSE Fail("CalledProcessError", name, 0)
           ELSE rb' = rb /\ Install(Cur) /\ Goto("rb_temp")
    /\ UNCHANGED <<gitconfig, pre, nrebuilds, call>>

\* the backup ref at the working branch's tip
RebuildBackup ==
    /\ pc = "rb_backup"
    /\ LET sha == Rev(Cur, rb.config.working_branch)
           name == BackupName(rb.config.working_branch, sha)
           r == create_branch(Cur, name, sha)
       IN  IF sha # 0
           THEN /\ rb' = [rb EXCEPT !.backup_branch = name]
                /\ Install(r.R)
                /\ IF r.ok THEN Goto("rb_temp") ELSE Fail("CalledProcessError", name, 0)
           ELSE rb' = rb /\ Install(Cur) /\ Goto("rb_temp")
    /\ UNCHANGED <<gitconfig, pre, nrebuilds, call>>

\* create_branch(temp, base)
RebuildTemp ==
    /\ pc = "rb_temp"
    /\ LET r == create_branch(Cur, rb.temp_branch, Rev(Cur, rb.config.base_branch))
       IN  /\ Install(r.R)
           /\ IF r.ok THEN Goto("rb_cotemp")
              ELSE Fail("CalledProcessError", rb.temp_branch, 0)
    /\ rb' = [rb EXCEPT !.fi = 1, !.ci = 1]
    /\ UNCHANGED <<gitconfig, pre, nrebuilds, call>>

\* the merges and picks made on the working branch itself
RebuildCheckoutTemp_onWorking ==
    /\ pc = "rb_cotemp"
    /\ LET r == checkout(Cur, rb.config.working_branch)
       IN  /\ Install(r.R)
           /\ IF r.ok THEN Goto(AfterCheckoutTemp(rb))
              ELSE Fail("CalledProcessError", rb.temp_branch, 0)
    /\ UNCHANGED <<rb, gitconfig, pre, nrebuilds, call>>

\* the checkout of the temporary branch left out
RebuildCheckoutTemp_skipped ==
    /\ pc = "rb_cotemp"
    /\ Install(Cur)
    /\ Goto(AfterCheckoutTemp(rb))
    /\ UNCHANGED <<rb, gitconfig, pre, nrebuilds, call>>

\* checkout(temp)
RebuildCheckoutTemp ==
    /\ pc = "rb_cotemp"
    /\ LET r == checkout(Cur, rb.temp_branch)
       IN  /\ Install(r.R)
           /\ IF r.ok THEN Goto(AfterCheckoutTemp(rb))
              ELSE Fail("CalledProcessError", rb.temp_branch, 0)
    /\ UNCHANGED <<rb, gitconfig, pre, nrebuilds, call>>

\* one turn of the feature loop: the existence check, then merge_branch
RebuildFeature ==
    /\ pc = "rb_feature"
    /\ LET branch == rb.config.feature_branches[rb.fi]
           r == merge_branch(Cur, branch)
       IN  IF ~branch_exists(Cur, branch)
           THEN Install(Cur) /\ Fail("BranchNotFoundError", branch, 0)
           ELSE /\ Install(r.R)
                /\ IF ~r.ok THEN Fail("GitConflictError", branch, 0)
                   ELSE IF rb.fi < Len(rb.config.feature_branches) THEN Goto("rb_feature")
                   ELSE Goto(AfterFeatures(rb))
    /\ rb' = [rb EXCEPT !.fi = rb.fi + 1]
    /\ UNCHANGED <<gitconfig, pre, nrebuilds, call>>

\* the backup deleted when a pick fails
RebuildPick_cleanup ==
    /\ pc = "rb_pick"
    /\ LET commit == rb.saved_local_commits[rb.ci]
           r == cherry_pick(Cur, commit)
       IN  IF ~r.ok
           THEN Install(delete_branch(r.R, rb.backup_branch).R)
                  /\ Fail("GitConflictError", "", commit)
           ELSE /\ Install(r.R)
                /\ IF rb.ci < Len(rb.saved_local_commits) THEN Goto("rb_pick")
                   ELSE Goto("rb_publish")
    /\ rb' = [rb EXCEPT !.ci = rb.ci + 1]
    /\ UNCHANGED <<gitconfig, pre, nrebuilds, call>>

\* the local commits picked from the end of the list
RebuildPick_backwards ==
    /\ pc = "rb_pick"
    /\ LET commit == rb.saved_local_commits[Len(rb.saved_local_commits) + 1 - rb.ci]
           r == cherry_pick(Cur, commit)
       IN  /\ Install(r.R)
           /\ IF ~r.ok THEN Fail("GitConflictError", "", commit)
              ELSE IF rb.ci < Len(rb.saved_local_commits) THEN Goto("rb_pick")
              ELSE Goto("rb_publish")
    /\ rb' = [rb EXCEPT !.ci = rb.ci + 1]
    /\ UNCHANGED <<gitconfig, pre, nrebuilds, call>>

\* one turn of the local-commit loop: cherry_pick
RebuildPick ==
    /\ pc = "rb_pick"
    /\ LET commit == rb.saved_local_commits[rb.ci]
           r == cherry_pick(Cur, commit)
       IN  /\ Install(r.R)
           /\ IF ~r.ok THEN Fail("GitConflictError", "", commit)
              ELSE IF rb.ci < Len(rb.saved_local_commits) THEN Goto("rb_pick")
              ELSE Goto("rb_publish")
    /\ rb' = [rb EXCEPT !.ci = rb.ci + 1]
    /\ UNCHANGED <<gitconfig, pre, nrebuilds, call>>

\* branch -f working temp
RebuildPublish ==
    /\ pc = "rb_publish"
    /\ LET r == branch_force(Cur, rb.config.working_branch, rb.temp_branch)
       IN  /\ Install(r.R)
           /\ IF r.ok THEN Goto("rb_restore")
              ELSE Fail("CalledProcessError", rb.config.working_branch, 0)
    /\ UNCHANGED <<rb, gitconfig, pre, nrebuilds, call>>

\* the working branch checked out only when the caller asked for it
RebuildRestore_flagOnly ==
    /\ pc = "rb_restore"
    /\ LET target == IF rb.checkout THEN rb.config.working_branch
                     ELSE rb.config.base_branch
           r == checkout(Cur, target)
       IN  /\ Install(r.R)
           /\ IF r.ok THEN Goto("rb_deltemp") ELSE Fail("CalledProcessError", target, 0)
    /\ UNCHANGED <<rb, gitconfig, pre, nrebuilds, call>>

\* back to the working branch, or off the temporary branch to the base
RebuildRestore ==
    /\ pc = "rb_restore"
    /\ LET target == IF rb.checkout \/ rb.was_on_working THEN rb.config.working_branch
                     ELSE rb.config.base_branch
           r == IF rb.checkout \/ rb.was_on_working
                     \/ get_current_branch(Cur) = rb.temp_branch
                THEN checkout(Cur, target)
                ELSE [ok |-> TRUE, R |-> Cur]
       IN  /\ Install(r.R)
           /\ IF r.ok THEN Goto("rb_deltemp") ELSE Fail("CalledProcessError", target, 0)
    /\ UNCHANGED <<rb, gitconfig, pre, nrebuilds, call>>

\* delete the temporary branch
RebuildDeleteTemp ==
    /\ pc = "rb_deltemp"
    /\ LET r == IF branch_exists(Cur, rb.temp_branch)
                THEN delete_branch(Cur, rb.temp_branch)
                ELSE [ok |-> TRUE, R |-> Cur]
       IN  /\ Install(r.R)
           /\ IF r.ok THEN Goto("rb_delbackup")
              ELSE Fail("CalledProcessError", rb.temp_branch, 0)
    /\ UNCHANGED <<rb, gitconfig, pre, nrebuilds, call>>

\* the backup branch kept
RebuildDeleteBackup_kept ==
    /\ pc = "rb_delbackup"
    /\ Install(Cur)
    /\ Goto("rb_pop")
    /\ UNCHANGED <<rb, gitconfig, pre, nrebuilds, call>>

\* delete the backup branch
RebuildDeleteBackup ==
    /\ pc = "rb_delbackup"
    /\ LET r == IF rb.backup_branch # "" /\ branch_exists(Cur, rb.backup_branch)
                THEN delete_branch(Cur, rb.backup_branch)
                ELSE [ok |-> TRUE, R |-> Cur]
       IN  /\ Install(r.R)
           /\ IF r.ok THEN Goto("rb_pop")
              ELSE Fail("CalledProcessError", rb.backup_branch, 0)
    /\ UNCHANGED <<rb, gitconfig, pre, nrebuilds, call>>

\* stash_pop whether or not this rebuild stashed anything
RebuildPop_always ==
    /\ pc = "rb_pop"
    /\ LET r == stash_pop(Cur)
       IN  /\ Install(r.R)
           /\ IF r.ok THEN Goto("done") ELSE Fail("KnitError", "", 0)
    /\ UNCHANGED <<rb, gitconfig, pre, nrebuilds, call>>

\* a failed stash_pop answered by moving the working branch back
RebuildPop_rollback ==
    /\ pc = "rb_pop"
    /\ LET r == IF rb.stash_created THEN stash_pop(Cur) ELSE [ok |-> TRUE, R |-> Cur]
       IN  IF r.ok THEN Install(r.R) /\ Goto("done")
           ELSE /\ Install([r.R EXCEPT !.refs = Put(r.R.refs, rb.config.working_branch,
                                                    Rev(pre, rb.config.working_branch))])
                /\ Fail("KnitError", "", 0)
    /\ UNCHANGED <<rb, gitconfig, pre, nrebuilds, call>>

\* stash_pop, when a stash was created
RebuildPop ==
    /\ pc = "rb_pop"
    /\ LET r == IF rb.stash_created THEN stash_pop(Cur) ELSE [ok |-> TRUE, R |-> Cur]
       IN  /\ Install(r.R)
           /\ IF r.ok THEN Goto("done") ELSE Fail("KnitError", "", 0)
    /\ UNCHANGED <<rb, gitconfig, pre, nrebuilds, call>>

\* the command returns (or its exception reaches the caller, who holds it)
Return ==
    /\ pc \in {"done", "failed"}
    /\ pc' = "idle"
    /\ rb' = NoRb
    /\ err' = err
    /\ pre' = NoPre
    /\ UNCHANGED <<commits, refs, head, wt, unmerged, inprog, stash, gitconfig, nrebuilds, call>>

Rebuild ==
    \/ RebuildClassify \/ RebuildBackup \/ RebuildTemp \/ RebuildCheckoutTemp
    \/ RebuildFeature \/ RebuildPick \/ RebuildPublish \/ RebuildRestore
    \/ RebuildDeleteTemp \/ RebuildDeleteBackup \/ RebuildPop

Environment ==
    \/ \E b \in FeatureNames : GitBranch(b)
    \/ \E b \in {BASE, WORK} \cup FeatureNames : GitCheckout(b)
    \/ \E f \in Files : GitCommit(f)
    \/ \E f \in EditFiles : GitEdit(f)
    \/ GitReset
    \/ \E fs \in FeatureLists : KnitInit(fs)
    \/ \E b \in FeatureNames : KnitRemove(b)

Next ==
    \/ Environment
    \/ nrebuilds = 0 /\ \E co \in BOOLEAN : RebuildStart(co)
    \/ Rebuild
    \/ Return

Spec == Init /\ [][Next]_vars

\* The rebuild command run again after it succeeded, nothing changed between
NextTwice ==
    \/ Environment
    \/ /\ nrebuilds \in {0, 1}
       /\ err.kind = "none"
       /\ \E co \in BOOLEAN : RebuildStart(co)
    \/ Rebuild
    \/ Return

SpecTwice == Init /\ [][NextTwice]_vars

\* git checkout <branch>, by the user after a rebuild that halted
GitSwitch(b) ==
    /\ Idle
    /\ nrebuilds = 1
    /\ err.kind # "none"
    /\ b \in DOMAIN refs
    /\ b # head
    /\ checkout(Cur, b).ok
    /\ Install(checkout(Cur, b).R)
    /\ UNCHANGED gitconfig
    /\ CmdUnchanged

\* git branch -D <working>.rebuilt, by the user after a rebuild that halted
GitDropTemp ==
    /\ Idle
    /\ nrebuilds = 1
    /\ err.kind # "none"
    /\ delete_branch(Cur, TempName(WORK)).ok
    /\ Install(delete_branch(Cur, TempName(WORK)).R)
    /\ UNCHANGED gitconfig
    /\ CmdUnchanged

\* git branch <feature> main, by the user after a rebuild that halted on a
\* missing feature branch
GitBranchLater(b) ==
    /\ Idle
    /\ Settled
    /\ nrebuilds = 1
    /\ err.kind = "BranchNotFoundError"
    /\ b \notin DOMAIN refs
    /\ Install(create_branch(Cur, b, Rev(Cur, BASE)).R)
    /\ UNCHANGED gitconfig
    /\ CmdUnchanged

\* edit file f; git commit -a, on the working branch after a rebuild that halted
GitCommitLater(f) ==
    /\ Idle
    /\ Settled
    /\ nrebuilds = 1
    /\ err.kind # "none"
    /\ head = WORK
    /\ Cardinality(UserCommits) <= MaxUserCommits
    /\ Install(CommitOnHead(Cur, [parents |-> <<HeadTip(Cur)>>,
                                  atom |-> Len(commits) + 1, file |-> f]))
    /\ UNCHANGED gitconfig
    /\ CmdUnchanged

\* The rebuild command run again after it halted with an error; in between
\* the user may give up the conflict left in the tree, change branch, delete
\* the temporary branch, create a missing feature branch and commit on the
\* working branch
NextRetry ==
    \/ Environment
    \/ \E b \in {BASE, WORK} : GitSwitch(b)
    \/ GitDropTemp
    \/ \E b \in FeatureNames : GitBranchLater(b)
    \/ \E f \in Files : GitCommitLater(f)
    \/ /\ nrebuilds = 0 \/ (nrebuilds = 1 /\ err.kind # "none")
       /\ \E co \in BOOLEAN : RebuildStart(co)
    \/ Rebuild
    \/ Return

SpecRetry == Init /\ [][NextRetry]_vars

\* The add command, on repositories the user composes
NextAdd ==
    \/ Environment
    \/ \E b \in FeatureNames : KnitAdd(b)

SpecAdd == Init /\ [][NextAdd]_vars

-----------------------------------------------------------------------------
(* The move command: git knit move <target-branch> <commit-ref>.  A commit   *)
(* reference is a commit id; one past the last id resolves to nothing.       *)

\* find_commit: rev-parse, then a search by message; not ok is "not found"
find_commit(R, ref) ==
    IF ref \in DOMAIN R.commits THEN [ok |-> TRUE, commit |-> ref]
    ELSE [ok |-> FALSE, commit |-> 0]

\* git cherry-pick of a merge commit without -m is refused
move_cherry_pick(R, c) ==
    IF IsMerge(R.commits, c) THEN [ok |-> FALSE, R |-> R] ELSE cherry_pick(R, c)

\* the checks of move made after its checkout and cherry-pick
MoveStart_checksLate(target, ref) ==
    /\ Idle
    /\ is_configured(gitconfig, WORK)
    /\ pre' = Snapshot(Cur)
    /\ LET config == get_config(gitconfig, WORK)
           found == find_commit(Cur, ref)
           co == checkout(Cur, target)
           pick == IF found.ok THEN move_cherry_pick(co.R, found.commit)
                   ELSE [ok |-> FALSE, R |-> co.R]
       IN  /\ call' = [NoCall EXCEPT !.op = "move", !.working = WORK, !.branch = target,
                          !.value = ToString(ref), !.config = config]
           /\ IF ~co.ok
              THEN Install(Cur) /\ Fail("CalledProcessError", target, 0)
              ELSE IF target \notin Range(config.feature_branches)
              THEN Install(pick.R) /\ Fail("ClickException", target, 0)
              ELSE IF ~is_clean_working_tree(Cur)
              THEN Install(pick.R) /\ Fail("UncommittedChangesError", "", 0)
              ELSE IF ~found.ok
              THEN Install(pick.R) /\ Fail("ClickException", "", ref)
              ELSE IF ~pick.ok
              THEN Install(pick.R) /\ Fail("GitConflictError", "", found.commit)
              ELSE Install(pick.R) /\ pc' = "mv_rebuild" /\ err' = NoErr
    /\ UNCHANGED <<gitconfig, rb, nrebuilds>>

\* move up to its rebuild: the target must be a feature branch of the knit,
\* the tree clean and the commit found; then checkout(target), cherry_pick.
\* git-spice is taken as not installed, so there is no restack.
MoveStart(target, ref) ==
    /\ Idle
    /\ is_configured(gitconfig, WORK)
    /\ pre' = Snapshot(Cur)
    /\ LET config == get_config(gitconfig, WORK)
           found == find_commit(Cur, ref)
           co == checkout(Cur, target)
           pick == move_cherry_pick(co.R, found.commit)
       IN  /\ call' = [NoCall EXCEPT !.op = "move", !.working = WORK, !.branch = target,
                          !.value = ToString(ref), !.config = config]
           /\ IF target \notin Range(config.feature_branches)
              THEN Install(Cur) /\ Fail("ClickException", target, 0)
              ELSE IF ~is_clean_working_tree(Cur)
              THEN Install(Cur) /\ Fail("UncommittedChangesError", "", 0)
              ELSE IF ~found.ok
              THEN Install(Cur) /\ Fail("ClickException", "", ref)
              ELSE IF ~co.ok
              THEN Install(Cur) /\ Fail("CalledProcessError", target, 0)
              ELSE IF ~pick.ok
              THEN Install(pick.R) /\ Fail("GitConflictError", "", found.commit)
              ELSE Install(pick.R) /\ pc' = "mv_rebuild" /\ err' = NoErr
    /\ UNCHANGED <<gitconfig, rb, nrebuilds>>

\* rebuilder.rebuild(config) called by move, with the config move read; pre
\* stays the repository as it was when move was called
MoveRebuild ==
    /\ pc = "mv_rebuild"
    /\ LET config == call.config
           current == get_current_branch(Cur)
           st == IF ~is_clean_working_tree(Cur) THEN stash_push(Cur)
                 ELSE [ret |-> FALSE, R |-> Cur]
       IN  /\ rb' = [NoRb EXCEPT !.config = config,
                                 !.checkout = TRUE,
                                 !.current = current,
                                 !.was_on_working = (current = config.working_branch),
                                 !.stash_created = st.ret,
                                 !.temp_branch = TempName(config.working_branch)]
           /\ Install(st.R)
    /\ nrebuilds' = nrebuilds + 1
    /\ pc' = "rb_classify"
    /\ err' = NoErr
    /\ UNCHANGED <<gitconfig, pre, call>>

\* the end of move: after the rebuild, back to the branch the caller was on;
\* an exception of any step reaches the caller
MoveReturn ==
    /\ pc \in {"done", "failed"}
    /\ call.op = "move"
    /\ LET current_branch == pre.head
           r == IF pc = "done" /\ branch_exists(Cur, current_branch)
                THEN checkout(Cur, current_branch)
                ELSE [ok |-> TRUE, R |-> Cur]
       IN  /\ Install(r.R)
           /\ err' = IF r.ok THEN err ELSE Error("CalledProcessError", current_branch, 0)
    /\ pc' = "idle"
    /\ rb' = NoRb
    /\ pre' = NoPre
    /\ call' = [call EXCEPT !.op = "moved"]
    /\ UNCHANGED <<gitconfig, nrebuilds>>

\* the arguments tried: one branch name, a feature branch of some knits and
\* not of others; the newest commit, and a reference that resolves to nothing
MoveTargets == {"b2"}

MoveRefs == {Len(commits), Len(commits) + 1}

NextMove ==
    \/ Environment
    \/ /\ nrebuilds = 0
       /\ call.op = "none"
       /\ \E t \in MoveTargets, c \in MoveRefs : MoveStart(t, c)
    \/ MoveRebuild
    \/ Rebuild
    \/ MoveReturn

\* a repository with nothing stashed
InitMove == Init /\ stash = <<>>

SpecMove == InitMove /\ [][NextMove]_vars

-----------------------------------------------------------------------------
(* rebuild_working_branch of operations_functions, one action per step *)

FnTempName(working) == working \o "-tmp"

\* stash_push of executor_functions: git stash push -u, an error on a
\* non-zero exit; with nothing to save git exits 0 and pushes nothing
fn_stash_push(R) ==
    IF R.unmerged THEN [ok |-> FALSE, R |-> R]
    ELSE IF R.wt = "clean" THEN [ok |-> TRUE, R |-> R]
    ELSE [ok |-> TRUE,
          R |-> [R EXCEPT !.stash = <<StashEntry(R)>> \o R.stash, !.wt = "clean"]]

\* merge_branch of executor_functions, and the merge --abort of the caller's
\* except clause
fn_merge_branch(R, b) ==
    LET o == MergeOutcome(R, b)
    IN  IF o = "merged"
        THEN [ok |-> TRUE, R |-> CommitOnHead(R, MergeCommit(HeadTip(R), Rev(R, b)))]
        ELSE IF o = "uptodate" THEN [ok |-> TRUE, R |-> R]
        ELSE [ok |-> FALSE, R |-> [R EXCEPT !.inprog = "none", !.unmerged = FALSE]]

\* the merge commits not skipped
get_local_commits_merges_kept(R, base, features) ==
    Reverse(SetToSeq({c \in AncIn(R.commits, HeadTip(R)) \ AncIn(R.commits, Rev(R, base)) :
                        ~\E i \in DOMAIN features :
                               /\ Rev(R, features[i]) # 0
                               /\ c \in AncIn(R.commits, Rev(R, features[i]))}))

\* get_local_commits: rev-list base..HEAD (newest first), without the merge
\* commits and the commits that are ancestors of a feature branch
get_local_commits(R, base, features) ==
    Reverse(SetToSeq({c \in AncIn(R.commits, HeadTip(R)) \ AncIn(R.commits, Rev(R, base)) :
                        /\ ~IsMerge(R.commits, c)
                        /\ ~\E i \in DOMAIN features :
                               /\ Rev(R, features[i]) # 0
                               /\ c \in AncIn(R.commits, Rev(R, features[i]))}))

\* The cherry-pick loop: stops at the first pick that fails, with
\* cherry-pick --abort
RECURSIVE PickEach(_, _)
PickEach(R, cs) ==
    IF cs = <<>> THEN [ok |-> TRUE, R |-> R, commit |-> 0]
    ELSE LET r == cherry_pick(R, Head(cs))
         IN  IF r.ok THEN PickEach(r.R, Tail(cs))
             ELSE [ok |-> FALSE, commit |-> Head(cs),
                   R |-> [r.R EXCEPT !.inprog = "none", !.unmerged = FALSE]]

\* An exception inside the try block: the finally clause runs, then it
\* propagates
FnRaise(kind, branch, commit) ==
    /\ pc' = "fn_finally"
    /\ err' = Error(kind, branch, commit)

\* the clean-tree check left out: a dirty tree is stashed and the rebuild runs
FnStart_unchecked(features) ==
    /\ Idle
    /\ pre' = Snapshot(Cur)
    /\ nrebuilds' = nrebuilds + 1
    /\ rb' = [NoRb EXCEPT !.config = KnitConfig(WORK, BASE, features),
                          !.current = get_current_branch(Cur),
                          !.temp_branch = FnTempName(WORK),
                          !.fi = 1, !.ci = 1]
    /\ LET st == fn_stash_push(Cur)
       IN  /\ Install(st.R)
           /\ IF st.ok THEN pc' = "fn_leftover" /\ err' = NoErr
              ELSE Fail("RuntimeError", "", 0)
    /\ UNCHANGED <<gitconfig, call>>

\* Steps 1 and 2: the clean-tree check, then stash_push
FnStart(features) ==
    /\ Idle
    /\ pre' = Snapshot(Cur)
    /\ nrebuilds' = nrebuilds + 1
    /\ rb' = [NoRb EXCEPT !.config = KnitConfig(WORK, BASE, features),
                          !.current = get_current_branch(Cur),
                          !.temp_branch = FnTempName(WORK),
                          !.fi = 1, !.ci = 1]
    /\ IF ~is_clean_working_tree(Cur)
       THEN Install(Cur) /\ Fail("UncommittedChangesError", "", 0)
       ELSE LET st == fn_stash_push(Cur)
            IN  /\ Install(st.R)
                /\ IF st.ok THEN pc' = "fn_leftover" /\ err' = NoErr
                   ELSE Fail("RuntimeError", "", 0)
    /\ UNCHANGED <<gitconfig, call>>

\* a leftover temporary branch is deleted, a failure ignored
FnLeftover ==
    /\ pc = "fn_leftover"
    /\ Install(delete_branch(Cur, rb.temp_branch).R)
    /\ Goto("fn_temp")
    /\ UNCHANGED <<rb, gitconfig, pre, nrebuilds, call>>

\* create_branch(tmp, base)
FnTemp ==
    /\ pc = "fn_temp"
    /\ LET r == create_branch(Cur, rb.temp_branch, Rev(Cur, rb.config.base_branch))
       IN  /\ Install(r.R)
           /\ IF r.ok THEN Goto("fn_cotemp") ELSE FnRaise("RuntimeError", rb.temp_branch, 0)
    /\ UNCHANGED <<rb, gitconfig, pre, nrebuilds, call>>

\* checkout(tmp)
FnCheckoutTemp ==
    /\ pc = "fn_cotemp"
    /\ LET r == checkout(Cur, rb.temp_branch)
       IN  /\ Install(r.R)
           /\ IF ~r.ok THEN FnRaise("RuntimeError", rb.temp_branch, 0)
              ELSE IF rb.config.feature_branches # <<>> THEN Goto("fn_feature")
              ELSE Goto("fn_picks")
    /\ UNCHANGED <<rb, gitconfig, pre, nrebuilds, call>>

\* one turn of the feature loop
FnFeature ==
    /\ pc = "fn_feature"
    /\ LET branch == rb.config.feature_branches[rb.fi]
           r == fn_merge_branch(Cur, branch)
       IN  /\ Install(r.R)
           /\ IF ~r.ok THEN FnRaise("GitConflictError", branch, 0)
              ELSE IF rb.fi < Len(rb.config.feature_branches) THEN Goto("fn_feature")
              ELSE Goto("fn_picks")
    /\ rb' = [rb EXCEPT !.fi = rb.fi + 1]
    /\ UNCHANGED <<gitconfig, pre, nrebuilds, call>>

\* Step 5: the local commits, computed on the temporary branch, cherry-picked
FnPicks ==
    /\ pc = "fn_picks"
    /\ LET local_commits == get_local_commits(Cur, rb.config.base_branch,
                                              rb.config.feature_branches)
           r == PickEach(Cur, local_commits)
       IN  /\ rb' = [rb EXCEPT !.saved_local_commits = local_commits]
           /\ Install(r.R)
           /\ IF r.ok THEN Goto("fn_publish")
              ELSE FnRaise("GitConflictError", "", r.commit)
    /\ UNCHANGED <<gitconfig, pre, nrebuilds, call>>

\* Step 6: branch -f working tmp
FnPublish ==
    /\ pc = "fn_publish"
    /\ LET r == branch_force(Cur, rb.config.working_branch, rb.temp_branch)
       IN  /\ Install(r.R)
           /\ IF r.ok THEN Goto("fn_cowork")
              ELSE FnRaise("RuntimeError", rb.config.working_branch, 0)
    /\ UNCHANGED <<rb, gitconfig, pre, nrebuilds, call>>

\* checkout(working)
FnCheckoutWorking ==
    /\ pc = "fn_cowork"
    /\ LET r == checkout(Cur, rb.config.working_branch)
       IN  /\ Install(r.R)
           /\ IF r.ok THEN Goto("fn_finally")
              ELSE FnRaise("RuntimeError", rb.config.working_branch, 0)
    /\ UNCHANGED <<rb, gitconfig, pre, nrebuilds, call>>

\* finally: delete the temporary branch, a failure ignored
FnDeleteTemp ==
    /\ pc = "fn_finally"
    /\ Install(delete_branch(Cur, rb.temp_branch).R)
    /\ Goto("fn_pop")
    /\ UNCHANGED <<rb, gitconfig, pre, nrebuilds, call>>

\* finally: stash_pop, a failure ignored; then return, or the exception
FnPop ==
    /\ pc = "fn_pop"
    /\ Install(stash_pop(Cur).R)
    /\ pc' = IF err.kind = "none" THEN "done" ELSE "failed"
    /\ err' = err
    /\ UNCHANGED <<rb, gitconfig, pre, nrebuilds, call>>

FnRebuild ==
    \/ FnLeftover \/ FnTemp \/ FnCheckoutTemp \/ FnFeature \/ FnPicks
    \/ FnPublish \/ FnCheckoutWorking \/ FnDeleteTemp \/ FnPop

NextFn ==
    \/ Environment
    \/ nrebuilds = 0 /\ \E fs \in FeatureLists : FnStart(fs)
    \/ FnRebuild
    \/ Return

SpecFn == Init /\ [][NextFn]_vars

-----------------------------------------------------------------------------
(* The commit classifier applied to histories the user builds by hand *)

\* git branch <b> <from>
HistBranch(b, from) ==
    /\ Composing
    /\ b \notin DOMAIN refs
    /\ from \in DOMAIN refs
    /\ Install(create_branch(Cur, b, Rev(Cur, from)).R)
    /\ UNCHANGED gitconfig
    /\ CmdUnchanged

\* on the working branch: git merge --no-ff <b>
HistMerge(b) ==
    /\ Composing
    /\ get_current_branch(Cur) = WORK
    /\ b \in DOMAIN refs
    /\ MergeOutcome(Cur, b) = "merged"
    /\ Install(merge_branch(Cur, b).R)
    /\ UNCHANGED gitconfig
    /\ CmdUnchanged

\* get_local_working_branch_commits(work, main, features), called directly
Classify(features) ==
    /\ Composing
    /\ branch_exists(Cur, WORK)
    /\ rb' = [NoRb EXCEPT !.config = KnitConfig(WORK, BASE, features),
                          !.saved_local_commits =
                              get_local_working_branch_commits(Cur, WORK, BASE, features)]
    /\ pre' = Snapshot(Cur)
    /\ pc' = "done"
    /\ err' = NoErr
    /\ UNCHANGED <<commits, refs, head, wt, unmerged, inprog, stash, gitconfig, nrebuilds, call>>

NextHist ==
    \/ \E b \in FeatureNames \cup {WORK}, from \in {BASE, WORK} \cup FeatureNames :
          HistBranch(b, from)
    \/ \E b \in {BASE, WORK} \cup FeatureNames : GitCheckout(b)
    \/ \E f \in Files : GitCommit(f)
    \/ \E b \in {BASE} \cup FeatureNames : HistMerge(b)
    \/ \E fs \in FeatureLists : Classify(fs)
    \/ Return

SpecHist == Init /\ [][NextHist]_vars

-----------------------------------------------------------------------------
(* The function-based classifiers applied to such histories, with HEAD at    *)
(* the working branch's tip                                                  *)

\* get_commits_between of executor_functions: rev-list base..target, newest
\* first (target is a commit id)
fn_get_commits_between(R, base, target) ==
    Reverse(SetToSeq(AncIn(R.commits, target) \ AncIn(R.commits, Rev(R, base))))

\* is_ancestor: merge-base --is-ancestor; False when the branch does not resolve
fn_is_ancestor(R, commit, branch) ==
    Rev(R, branch) # 0 /\ commit \in AncIn(R.commits, Rev(R, branch))

\* get_local_working_branch_commits of executor_functions: the commits of
\* base..HEAD in the order listed, without merges and feature commits
fn_get_local_working_branch_commits(R, base, features) ==
    SelectSeq(fn_get_commits_between(R, base, HeadTip(R)),
              LAMBDA commit :
                  /\ ~IsMerge(R.commits, commit)
                  /\ ~\E i \in DOMAIN features : fn_is_ancestor(R, commit, features[i]))

\* get_local_commits(main, features), called directly
FnClassify(features) ==
    /\ Composing
    /\ get_current_branch(Cur) = WORK
    /\ rb' = [NoRb EXCEPT !.config = KnitConfig(WORK, BASE, features),
                          !.saved_local_commits = get_local_commits(Cur, BASE, features)]
    /\ call' = [NoCall EXCEPT !.op = "get_local_commits"]
    /\ pre' = Snapshot(Cur)
    /\ pc' = "done"
    /\ err' = NoErr
    /\ UNCHANGED <<commits, refs, head, wt, unmerged, inprog, stash, gitconfig, nrebuilds>>

\* get_local_working_branch_commits(main, features) of executor_functions,
\* called directly
FnClassifyExecutor(features) ==
    /\ Composing
    /\ get_current_branch(Cur) = WORK
    /\ rb' = [NoRb EXCEPT !.config = KnitConfig(WORK, BASE, features),
                          !.saved_local_commits =
                              fn_get_local_working_branch_commits(Cur, BASE, features)]
    /\ call' = [NoCall EXCEPT !.op = "get_local_working_branch_commits"]
    /\ pre' = Snapshot(Cur)
    /\ pc' = "done"
    /\ err' = NoErr
    /\ UNCHANGED <<commits, refs, head, wt, unmerged, inprog, stash, gitconfig, nrebuilds>>

NextFnHist ==
    \/ \E b \in FeatureNames \cup {WORK}, from \in {BASE, WORK} \cup FeatureNames :
          HistBranch(b, from)
    \/ \E b \in {BASE, WORK} \cup FeatureNames : GitCheckout(b)
    \/ \E f \in Files : GitCommit(f)
    \/ \E b \in {BASE} \cup FeatureNames : HistMerge(b)
    \/ \E fs \in FeatureLists : FnClassify(fs)
    \/ \E fs \in FeatureLists : FnClassifyExecutor(fs)
    \/ Return

SpecFnHist == Init /\ [][NextFnHist]_vars

-----------------------------------------------------------------------------
(* The config format: _parse_config and _serialize_config applied to texts  *)
(* and to configs taken from bounded sets                                   *)

MaxTextLen == 5
MaxFeatures == 3

TextChars == {":", "w", "m"}

RECURSIVE Texts(_)
Texts(n) ==
    IF n = 0 THEN {""}
    ELSE Texts(n - 1) \cup
         {t \o c : t \in {u \in Texts(n - 1) : Len(u) = n - 1}, c \in TextChars}

Lists(S, n) == UNION {[1..k -> S] : k \in 0..n}

NoDuplicates(s) == \A i, j \in DOMAIN s : s[i] = s[j] => i = j

\* Names a caller may put in a KnitConfig; the last two are no branch names
CodecNames == {"w", "mn", "", "f:"}

CodecConfigs ==
    {KnitConfig(w, b, fs) : w \in CodecNames, b \in CodecNames,
                            fs \in Lists(CodecNames, MaxFeatures)}

NoRepoChange ==
    UNCHANGED <<commits, refs, head, wt, unmerged, inprog, stash,
                pc, rb, err, pre, nrebuilds>>

InitCodec ==
    /\ commits = <<[parents |-> <<>>, atom |-> 1, file |-> "x"]>>
    /\ refs = [b \in {BASE} |-> 1]
    /\ head = BASE
    /\ wt = "clean"
    /\ unmerged = FALSE
    /\ inprog = "none"
    /\ stash = <<>>
    /\ gitconfig = <<>>
    /\ pc = "idle"
    /\ rb = NoRb
    /\ err = NoErr
    /\ pre = NoPre
    /\ nrebuilds = 0
    /\ \/ \E s \in Texts(MaxTextLen) : call = [NoCall EXCEPT !.op = "text", !.value = s]
       \/ \E c \in CodecConfigs : call = [NoCall EXCEPT !.op = "config", !.config = c]

\* _parse_config(value), which raises KnitError on fewer than two parts
Parsed(c, value) ==
    IF parse_ok(value) THEN [c EXCEPT !.ret_config = parse_config(value)]
    ELSE [c EXCEPT !.raised = "KnitError"]

ParseConfig ==
    /\ call.op = "text"
    /\ call' = [Parsed(call, call.value) EXCEPT !.op = "_parse_config"]
    /\ UNCHANGED gitconfig
    /\ NoRepoChange

SerializeConfig ==
    /\ call.op = "config"
    /\ call' = [call EXCEPT !.op = "_serialize_config",
                            !.ret_value = serialize_config(call.config)]
    /\ UNCHANGED gitconfig
    /\ NoRepoChange

\* _parse_config(_serialize_config(config))
ParseSerialized ==
    /\ call.op = "_serialize_config"
    /\ call' = [Parsed(call, call.ret_value) EXCEPT !.op = "parse_serialized"]
    /\ UNCHANGED gitconfig
    /\ NoRepoChange

\* _serialize_config(_parse_config(value))
SerializeParsed ==
    /\ call.op = "_parse_config"
    /\ call.raised = ""
    /\ call' = [call EXCEPT !.op = "serialize_parsed",
                            !.ret_value = serialize_config(call.ret_config)]
    /\ UNCHANGED gitconfig
    /\ NoRepoChange

NextCodec ==
    \/ ParseConfig
    \/ SerializeConfig
    \/ ParseSerialized
    \/ SerializeParsed

SpecCodec == InitCodec /\ [][NextCodec]_vars

-----------------------------------------------------------------------------
(* KnitConfigManager called with any names, in any order *)

\* Working branch names: two that differ in case only, one more, and one that
\* git refuses as a variable name
CfgWorking == {"wk", "Wk", "dv"}
CfgRefused == {"d/v"}
CfgBase == {"m"}
CfgFeatures == {"f", "m", "wk"}

\* Feature lists given to init_knit: none, a branch twice, and three branches
\* with the base branch and a working branch among them
CfgFeatureLists == {<<>>, <<"f", "f">>, <<"f", "m", "wk">>}

InitConfig ==
    /\ commits = <<[parents |-> <<>>, atom |-> 1, file |-> "x"]>>
    /\ refs = [b \in CfgWorking \cup CfgRefused \cup CfgBase \cup CfgFeatures |-> 1]
    /\ head = "wk"
    /\ wt = "clean"
    /\ unmerged = FALSE
    /\ inprog = "none"
    /\ stash = <<>>
    /\ gitconfig = <<>>
    /\ pc = "idle"
    /\ rb = NoRb
    /\ err = NoErr
    /\ pre = NoPre
    /\ nrebuilds = 0
    /\ call = NoCall

Called(op, working) == [NoCall EXCEPT !.op = op, !.working = working]

InitKnit(working, base, features) ==
    /\ LET ok == init_knit_ok(working)
       IN  /\ call' = [Called("init_knit", working) EXCEPT
                          !.base = base, !.features = features,
                          !.raised = IF ok THEN "" ELSE "CalledProcessError"]
           /\ gitconfig' = IF ok THEN init_knit(gitconfig, working, base, features)
                           ELSE gitconfig
    /\ NoRepoChange

\* The feature lists of the model are kept to MaxFeatures branches
AddBranch(working, branch) ==
    /\ LET ok == add_branch_ok(gitconfig, working, branch)
       IN  /\ ok => Len(get_config(gitconfig, working).feature_branches) < MaxFeatures
           /\ call' = [Called("add_branch", working) EXCEPT
                          !.branch = branch,
                          !.raised = IF ok THEN "" ELSE "KnitError"]
           /\ gitconfig' = IF ok THEN add_branch(gitconfig, working, branch)
                           ELSE gitconfig
    /\ NoRepoChange

RemoveBranch(working, branch) ==
    /\ LET ok == remove_branch_ok(gitconfig, working, branch)
       IN  /\ call' = [Called("remove_branch", working) EXCEPT
                          !.branch = branch,
                          !.raised = IF ok THEN ""
                                     ELSE IF is_configured(gitconfig, working)
                                     THEN "BranchNotFoundError"
                                     ELSE "KnitError"]
           /\ gitconfig' = IF ok THEN remove_branch(gitconfig, working, branch)
                           ELSE gitconfig
    /\ NoRepoChange

DeleteConfig(working) ==
    /\ call' = Called("delete_config", working)
    /\ gitconfig' = delete_config(gitconfig, working)
    /\ NoRepoChange

GetConfig(working) ==
    /\ call' = IF is_configured(gitconfig, working)
               THEN [Called("get_config", working) EXCEPT
                        !.ret_config = get_config(gitconfig, working)]
               ELSE [Called("get_config", working) EXCEPT !.raised = "KnitError"]
    /\ UNCHANGED gitconfig
    /\ NoRepoChange

ResolveWorkingBranch(explicit) ==
    /\ LET r == resolve_working_branch(gitconfig, get_current_branch(Cur), explicit)
       IN  call' = [Called("resolve_working_branch", explicit) EXCEPT
                       !.ret_value = r.branch,
                       !.raised = IF r.ok THEN "" ELSE "KnitError"]
    /\ UNCHANGED gitconfig
    /\ NoRepoChange

NextConfig ==
    \/ \E w \in CfgWorking \cup CfgRefused, b \in CfgBase, fs \in CfgFeatureLists :
          InitKnit(w, b, fs)
    \/ \E w \in CfgWorking, b \in CfgFeatures : AddBranch(w, b)
    \/ \E w \in CfgWorking, b \in CfgFeatures : RemoveBranch(w, b)
    \/ \E w \in CfgWorking : DeleteConfig(w)
    \/ \E w \in CfgWorking : GetConfig(w)
    \/ \E w \in CfgWorking \cup {""} : ResolveWorkingBranch(w)

SpecConfig == InitConfig /\ [][NextConfig]_vars

-----------------------------------------------------------------------------
(* config_functions: one key per concept under the section knit.<working> *)

get_section(working_branch) == "knit." \o working_branch

\* get_config_value: git config --get <section>.<key>; not ok is None
get_config_value(G, section, key) ==
    LET held == git_key(section \o "." \o key)
    IN  IF git_valid_key(section \o "." \o key) /\ held \in DOMAIN G
        THEN [ok |-> TRUE, value |-> G[held]]
        ELSE [ok |-> FALSE, value |-> ""]

\* set_config_value: git config <section>.<key> <value>, checked
set_config_value_ok(section, key) == git_valid_key(section \o "." \o key)

set_config_value(G, section, key, value) ==
    Put(G, git_key(section \o "." \o key), value)

\* for branch in feature_branches: set_config_value(section, key, branch)
RECURSIVE SetEach(_, _, _, _)
SetEach(G, section, key, values) ==
    IF values = <<>> THEN G
    ELSE SetEach(set_config_value(G, section, key, Head(values)),
                 section, key, Tail(values))

\* [raised, G]
fn_init_knit(G, working_branch, base_branch, feature_branches) ==
    LET section == get_section(working_branch)
    IN  IF ~set_config_value_ok(section, "base_branch")
        THEN [raised |-> "RuntimeError", G |-> G]
        ELSE LET G1 == set_config_value(G, section, "base_branch", base_branch)
             IN  IF feature_branches = <<>> THEN [raised |-> "", G |-> G1]
                 ELSE IF ~set_config_value_ok(section, "feature_branches")
                 THEN [raised |-> "RuntimeError", G |-> G1]
                 ELSE [raised |-> "",
                       G |-> SetEach(G1, section, "feature_branches", feature_branches)]

\* [found, config]; not found is None
fn_get_config(G, working_branch) ==
    LET section == get_section(working_branch)
        base_branch == get_config_value(G, section, "base_branch")
        feature_branches_str == get_config_value(G, section, "feature_branches")
    IN  IF ~base_branch.ok
        THEN [found |-> FALSE, config |-> KnitConfig("", "", <<>>)]
        ELSE [found |-> TRUE,
              config |-> KnitConfig(working_branch, base_branch.value,
                             IF ~feature_branches_str.ok THEN <<>>
                             ELSE SelectSeq(split(feature_branches_str.value, "\n"),
                                            LAMBDA fb : fb # ""))]

fn_branch_exists(R, branch) == branch \in DOMAIN R.refs

\* [raised, G]
fn_add_branch(R, G, working_branch, branch) ==
    LET config == fn_get_config(G, working_branch)
        section == get_section(working_branch)
    IN  IF ~fn_branch_exists(R, branch)
        THEN [raised |-> "BranchNotFoundError", G |-> G]
        ELSE IF ~config.found THEN [raised |-> "ValueError", G |-> G]
        ELSE IF branch \in Range(config.config.feature_branches)
        THEN [raised |-> "AlreadyInKnitError", G |-> G]
        ELSE IF ~set_config_value_ok(section, "feature_branches")
        THEN [raised |-> "RuntimeError", G |-> G]
        ELSE [raised |-> "",
              G |-> set_config_value(G, section, "feature_branches", branch)]

FnInitKnit(working, base, features) ==
    /\ LET r == fn_init_knit(gitconfig, working, base, features)
       IN  /\ call' = [Called("fn_init_knit", working) EXCEPT
                          !.base = base, !.features = features, !.raised = r.raised]
           /\ gitconfig' = r.G
    /\ NoRepoChange

FnAddBranch(working, branch) ==
    /\ LET r == fn_add_branch(Cur, gitconfig, working, branch)
       IN  /\ call' = [Called("fn_add_branch", working) EXCEPT
                          !.branch = branch, !.raised = r.raised]
           /\ gitconfig' = r.G
    /\ NoRepoChange

FnGetConfig(working) ==
    /\ LET r == fn_get_config(gitconfig, working)
       IN  call' = [Called("fn_get_config", working) EXCEPT
                       !.ret_config = r.config,
                       !.raised = IF r.found THEN "" ELSE "None"]
    /\ UNCHANGED gitconfig
    /\ NoRepoChange

NextFnConfig ==
    \/ \E w \in CfgWorking \cup CfgRefused, b \in CfgBase \cup CfgFeatures,
             fs \in Lists(CfgFeatures, MaxFeatures) : FnInitKnit(w, b, fs)
    \/ \E w \in CfgWorking \cup CfgRefused, b \in CfgFeatures \cup {"gone"} :
          FnAddBranch(w, b)
    \/ \E w \in CfgWorking \cup CfgRefused : FnGetConfig(w)

SpecFnConfig == InitConfig /\ [][NextFnConfig]_vars

-----------------------------------------------------------------------------
(* What the claims speak of *)

Running == pc \notin {"idle"}

Succeeded == pc = "done"

Raised(kind) == pc = "failed" /\ err.kind = kind

WorkTip == Rev(Cur, WORK)

PreWorkTip == Rev(pre, WORK)

TempTip == Rev(Cur, TempName(WORK))

\* a merge conflict names a branch, a cherry-pick conflict a commit
MergeConflictRaised == Raised("GitConflictError") /\ err.branch # ""

PickConflictRaised == Raised("GitConflictError") /\ err.commit # 0

\* The local commits of the working branch as it was when rebuild was
\* called: non-merge, reachable from it, not from the base or a feature
LocalsAtCall ==
    IF PreWorkTip = 0 THEN {}
    ELSE {c \in Anc(PreWorkTip) :
            /\ Len(commits[c].parents) < 2
            /\ c \notin Anc(Rev(pre, rb.config.base_branch))
            /\ \A i \in DOMAIN rb.config.feature_branches :
                 Rev(pre, rb.config.feature_branches[i]) = 0
                   \/ c \notin Anc(Rev(pre, rb.config.feature_branches[i]))}

\* The copies of commit c that this rebuild made and the working branch holds
Replays(c) ==
    {k \in Anc(WorkTip) : k > pre.ncommits /\ Len(commits[k].parents) < 2
                            /\ commits[k].atom = commits[c].atom}

\* The stash entry this rebuild pushed is on top of the entries held before
StashHeld ==
    /\ Len(stash) = Len(pre.stash) + 1
    /\ Tail(stash) = pre.stash
    /\ Head(stash).file = pre.wt

\* C1: whenever rebuild ends by raising GitConflictError, refs/heads/<working>
\* points to the commit it pointed to when rebuild was called.
C1_ConflictLeavesWorking ==
    Raised("GitConflictError") => WorkTip = PreWorkTip

C1_Witness ==
    PickConflictRaised /\ PreWorkTip # 0 /\ Len(commits) > pre.ncommits

\* C2: during a rebuild the working branch ref is modified by one step only,
\* the force-move, which sets it to the temporary branch's tip and runs only
\* when every feature is merged and every local commit is picked; so the ref
\* is at its pre-rebuild tip up to that step.
C2_OnlyPublishMoves ==
    [][ (pc # "idle" /\ Rev(Cur, WORK)' # Rev(Cur, WORK)) =>
          /\ pc = "rb_publish"
          /\ WorkTip = PreWorkTip
          /\ WorkTip' = TempTip
          /\ rb.fi = Len(rb.config.feature_branches) + 1
          /\ rb.ci = Len(rb.saved_local_commits) + 1
          /\ \A i \in DOMAIN rb.config.feature_branches :
                Rev(Cur, rb.config.feature_branches[i]) \in Anc(TempTip)
          /\ \A j \in DOMAIN rb.saved_local_commits :
                \E k \in Anc(TempTip) :
                   k > pre.ncommits /\ commits[k].atom = commits[rb.saved_local_commits[j]].atom
      ]_vars

C2_Witness ==
    /\ pc = "rb_restore"
    /\ WorkTip # PreWorkTip
    /\ rb.config.feature_branches # <<>>
    /\ rb.saved_local_commits # <<>>

\* C3: after a successful rebuild of an existing working branch, the new
\* history holds a replayed copy of each local commit, and the copies come
\* in the order of the originals, oldest first.
C3_LocalsReplayedInOrder ==
    (Succeeded /\ PreWorkTip # 0) =>
        /\ \A c \in LocalsAtCall : Replays(c) # {}
        /\ \A c, d \in LocalsAtCall :
              c < d => \E k \in Replays(c), m \in Replays(d) : k # m /\ k \in Anc(m)

C3_Witness ==
    Succeeded /\ PreWorkTip # 0 /\ Cardinality(LocalsAtCall) >= 2

\* C4: a rebuild called with a dirty tree keeps the edits stashed until its
\* last step and, when it succeeds, has restored them and left the stash
\* stack as it was; called with a clean tree it never changes the stash.
C4_StashRoundTrip ==
    /\ (Running /\ is_clean_working_tree(pre)) => (stash = pre.stash /\ ~rb.stash_created)
    /\ (Running /\ ~is_clean_working_tree(pre) /\ ~pre.unmerged
          /\ pc \notin {"done", "failed"}) => (StashHeld /\ wt = "clean")
    /\ (Succeeded /\ ~is_clean_working_tree(pre)) =>
          (wt = pre.wt /\ ~unmerged /\ stash = pre.stash)

C4_Witness ==
    Succeeded /\ pre.wt # "clean" /\ pre.stash # <<>> /\ wt = pre.wt

\* C5: with b1 removed from a knit [b1, b2] whose working branch had both
\* merged, a successful rebuild leaves the stored feature list [b2] and a
\* working branch with no content unique to b1.
ContentUniqueTo(b) ==
    Tree(Rev(pre, b)) \ (Tree(Rev(pre, BASE)) \cup Tree(Rev(pre, "b2")))

C5_RemovedBranchGone ==
    (/\ Succeeded
     /\ rb.config.feature_branches = <<"b2">>
     /\ PreWorkTip # 0 /\ Rev(pre, "b1") # 0 /\ Rev(pre, "b2") # 0
     /\ Rev(pre, "b1") \in Anc(PreWorkTip)
     /\ Rev(pre, "b2") \in Anc(PreWorkTip)) =>
        /\ get_config(gitconfig, WORK).feature_branches = <<"b2">>
        /\ Tree(WorkTip) \cap ContentUniqueTo("b1") = {}

\* C6: after a successful rebuild_working_branch on a working branch that
\* holds local commits, the rebuilt working branch holds a cherry-picked copy
\* of each of them.
C6_FnKeepsLocals ==
    (Succeeded /\ PreWorkTip # 0 /\ rb.temp_branch = FnTempName(WORK)) =>
        \A c \in LocalsAtCall : Replays(c) # {}

\* C7: after a feature merge conflict no merge is in progress, the error
\* names the feature whose merge conflicts, and the temporary branch, the
\* backup branch if one was created and the stash entry if one was pushed
\* are all still there.
C7_MergeConflictHalt ==
    MergeConflictRaised =>
        /\ inprog = "none" /\ ~unmerged
        /\ err.branch = rb.config.feature_branches[rb.fi - 1]
        /\ MergeOutcome(Cur, err.branch) = "conflict"
        /\ TempTip # 0
        /\ head = rb.temp_branch
        /\ rb.backup_branch # "" => Rev(Cur, rb.backup_branch) = PreWorkTip
        /\ PreWorkTip # 0 => rb.backup_branch # ""
        /\ rb.stash_created => StashHeld

C7_Witness ==
    MergeConflictRaised /\ rb.backup_branch # "" /\ rb.stash_created

\* C8 as stated: after a cherry-pick conflict no cherry-pick is in progress,
\* the error identifies the commit, and the temporary branch, the backup
\* branch and the stash are preserved.
C8_PickConflictAborted ==
    PickConflictRaised =>
        /\ inprog = "none" /\ ~unmerged
        /\ err.commit = rb.saved_local_commits[rb.ci - 1]
        /\ TempTip # 0
        /\ rb.backup_branch # "" /\ Rev(Cur, rb.backup_branch) = PreWorkTip
        /\ rb.stash_created => StashHeld

\* C8 amended: after a cherry-pick conflict the error identifies the commit
\* whose pick failed, and the temporary branch, the backup branch and the
\* stash are preserved; the cherry-pick itself is not aborted.
C8_PickConflictHalt ==
    PickConflictRaised =>
        /\ inprog # "none"
        /\ err.commit = rb.saved_local_commits[rb.ci - 1]
        /\ err.commit \in LocalsAtCall
        /\ TempTip # 0
        /\ rb.backup_branch # "" /\ Rev(Cur, rb.backup_branch) = PreWorkTip
        /\ rb.stash_created => StashHeld

C8_Witness ==
    PickConflictRaised /\ rb.stash_created /\ rb.ci > 1 /\ pre.stash # <<>>

\* C9: after a cherry-pick conflict the current branch is the temporary
\* branch and the conflicting cherry-pick is still in progress, with its
\* conflict markers in the tree.
C9_PickConflictLeftInTree ==
    (PickConflictRaised /\ commits[err.commit].atom \notin Tree(HeadTip(Cur))) =>
        /\ head = TempName(WORK)
        /\ inprog = "cherry-pick"
        /\ unmerged

C9_Witness ==
    PickConflictRaised /\ unmerged /\ rb.config.feature_branches # <<>>

\* C10: when rebuild raises BranchNotFoundError for a missing feature
\* branch, no feature branch has been merged into the temporary branch.
C10_MissingBranchBeforeMerges ==
    Raised("BranchNotFoundError") =>
        /\ TempTip = Rev(Cur, rb.config.base_branch)
        /\ Len(commits) = pre.ncommits

\* C11: when rebuild raises BranchNotFoundError the repository is untouched:
\* no temporary branch, no backup branch, no new stash entry, and the
\* current branch is the one the caller was on.
C11_LookupErrorLeavesNothing ==
    Raised("BranchNotFoundError") =>
        /\ ~branch_exists(Cur, TempName(WORK))
        /\ rb.backup_branch = ""
        /\ DOMAIN refs = DOMAIN pre.refs
        /\ stash = pre.stash
        /\ head = pre.head

\* C12: after a successful rebuild neither the temporary branch nor the
\* backup branch this rebuild created exists.
C12_SuccessCleansUp ==
    Succeeded =>
        /\ ~branch_exists(Cur, TempName(WORK))
        /\ PreWorkTip # 0 => ~branch_exists(Cur, BackupName(WORK, PreWorkTip))
        /\ rb.backup_branch # "" => ~branch_exists(Cur, rb.backup_branch)
        /\ DOMAIN refs = DOMAIN pre.refs \cup {WORK}

C12_Witness ==
    Succeeded /\ rb.backup_branch # "" /\ WorkTip > pre.ncommits

\* The tip a rebuild publishes: on the base, with every feature merged and
\* every local commit replayed, and made by this rebuild unless it is the
\* base tip itself
Published(t) ==
    /\ t # 0
    /\ t > pre.ncommits \/ t = Rev(pre, rb.config.base_branch)
    /\ Rev(pre, rb.config.base_branch) \in Anc(t)
    /\ \A i \in DOMAIN rb.config.feature_branches :
          Rev(pre, rb.config.feature_branches[i]) \in Anc(t)
    /\ \A c \in LocalsAtCall : \E k \in Anc(t) :
          k > pre.ncommits /\ commits[k].atom = commits[c].atom

\* C13: when the stash cannot be restored at the end of a rebuild, the
\* caller gets an error (KnitError), the stash entry is kept, and the
\* working branch stays at the newly built tip.
C13_FailedRestoreKeepsResult ==
    Raised("KnitError") =>
        /\ rb.stash_created
        /\ StashHeld
        /\ Published(WorkTip)

C13_Witness ==
    Raised("KnitError") /\ WorkTip # PreWorkTip /\ PreWorkTip # 0

\* C14: once a successful rebuild is past its checkout step, the current
\* branch is the working branch if the caller was on it or asked for the
\* checkout, and the base branch otherwise.
C14_CheckoutAfterPublish ==
    pc \in {"rb_deltemp", "rb_delbackup", "rb_pop", "done"} =>
        head = IF pre.head = rb.config.working_branch \/ rb.checkout
               THEN rb.config.working_branch
               ELSE rb.config.base_branch

C14_Witness ==
    Succeeded /\ ~rb.checkout /\ pre.head = WORK /\ head = WORK /\ WorkTip # PreWorkTip

\* C15: after a successful rebuild with checkout=False, called from a branch
\* other than the working branch, the current branch is the branch that was
\* current before the rebuild.
C15_PositionRestored ==
    (Succeeded /\ ~rb.checkout /\ pre.head # rb.config.working_branch) =>
        head = pre.head

\* C18: during and after a rebuild, successful or failed, the base branch
\* ref and every configured feature branch ref point to the commits they
\* pointed to at the call.
C18_InputsReadOnly ==
    Running =>
        /\ Rev(Cur, rb.config.base_branch) = Rev(pre, rb.config.base_branch)
        /\ \A i \in DOMAIN rb.config.feature_branches :
              Rev(Cur, rb.config.feature_branches[i])
                 = Rev(pre, rb.config.feature_branches[i])

C18_Witness ==
    /\ Succeeded
    /\ pre.head = BASE
    /\ Len(rb.config.feature_branches) = 2
    /\ Len(commits) > pre.ncommits + 1

\* The first-parent line of t above b, oldest first
RECURSIVE FirstParentLine(_, _)
FirstParentLine(t, b) ==
    IF t = b \/ t = 0 \/ commits[t].parents = <<>> THEN <<>>
    ELSE Append(FirstParentLine(commits[t].parents[1], b), t)

BaseAtCall == Rev(pre, rb.config.base_branch)

FeatureAtCall(i) == Rev(pre, rb.config.feature_branches[i])

NewLine == FirstParentLine(WorkTip, BaseAtCall)

NewMerges == SelectSeq(NewLine, LAMBDA k : IsMerge(commits, k))

NewPicks == SelectSeq(NewLine, LAMBDA k : ~IsMerge(commits, k))

\* The new history stands on the base tip, is made of this rebuild's commits,
\* merges first, and ends with the copies of the local commits in order
LineShape ==
    /\ BaseAtCall \in Anc(WorkTip)
    /\ NewLine # <<>> => commits[NewLine[1]].parents[1] = BaseAtCall
    /\ \A i \in DOMAIN NewLine : NewLine[i] > pre.ncommits
    /\ NewLine = NewMerges \o NewPicks
    /\ LET L == SetToSeq(LocalsAtCall)
       IN  /\ Len(NewPicks) = Len(L)
           /\ \A i \in DOMAIN L : commits[NewPicks[i]].atom = commits[L[i]].atom

\* Feature i is already contained when its turn comes: its tip is reachable
\* from the base or from a feature merged before it
Contained(i) ==
    \/ FeatureAtCall(i) \in Anc(BaseAtCall)
    \/ \E j \in 1..(i - 1) : FeatureAtCall(i) \in Anc(FeatureAtCall(j))

DueFeatures ==
    SelectSeq([i \in DOMAIN rb.config.feature_branches |-> i], LAMBDA i : ~Contained(i))

\* C16 as stated: after a successful rebuild the working branch history is
\* the base tip, then exactly one merge commit per configured feature in
\* configured order, then the replayed local commits.
C16_OneMergePerFeature ==
    Succeeded =>
        /\ LineShape
        /\ Len(NewMerges) = Len(rb.config.feature_branches)
        /\ \A i \in DOMAIN NewMerges :
              commits[NewMerges[i]].parents[2] = FeatureAtCall(i)

\* C16 amended: after a successful rebuild the working branch history is the
\* base tip, then, in configured order, one merge commit for each configured
\* feature that is not already contained in the branch when its turn comes,
\* then the replayed local commits.
C16_OneMergePerDueFeature ==
    Succeeded =>
        /\ LineShape
        /\ Len(NewMerges) = Len(DueFeatures)
        /\ \A i \in DOMAIN NewMerges :
              commits[NewMerges[i]].parents[2] = FeatureAtCall(DueFeatures[i])

C16_Witness ==
    /\ Succeeded
    /\ PreWorkTip # 0
    /\ Len(rb.config.feature_branches) = 2
    /\ Len(NewMerges) = 1
    /\ Len(NewPicks) = 1
    /\ PreWorkTip \notin Range(NewLine)

\* The commits picked so far onto the temporary branch, oldest first
PickedSoFar ==
    SelectSeq(FirstParentLine(TempTip, BaseAtCall), LAMBDA k : ~IsMerge(commits, k))

\* C20: the local commits are listed oldest first, an ancestor before its
\* descendants, and the rebuild cherry-picks them in the order of the list.
C20_OldestFirst ==
    LET L == rb.saved_local_commits
    IN  /\ Running =>
              \A i, j \in DOMAIN L :
                  i < j => (L[i] < L[j] /\ L[j] \notin Anc(L[i]))
        /\ pc \in {"rb_pick", "rb_publish"} =>
              /\ Len(PickedSoFar) = rb.ci - 1
              /\ \A i \in DOMAIN PickedSoFar :
                    commits[PickedSoFar[i]].atom = commits[L[i]].atom

C20_Witness ==
    /\ pc = "rb_publish"
    /\ Len(rb.saved_local_commits) = 2
    /\ rb.saved_local_commits[1] \in Anc(rb.saved_local_commits[2])
    /\ Len(PickedSoFar) = 2

\* C17: a rebuild that succeeds right after a successful rebuild, nothing
\* changed between the two, leaves a working branch with the same tree
\* content as the first left.
C17_RebuildIdempotent ==
    (Succeeded /\ nrebuilds = 2) =>
        /\ PreWorkTip # 0
        /\ Tree(WorkTip) = Tree(PreWorkTip)
        /\ \A f \in Files : OnFile(Tree(WorkTip), f) = OnFile(Tree(PreWorkTip), f)

C17_Witness ==
    /\ Succeeded
    /\ nrebuilds = 2
    /\ rb.config.feature_branches # <<>>
    /\ Len(rb.saved_local_commits) = 2
    /\ WorkTip # PreWorkTip

\* What the classifier was given
Given == rb.config.feature_branches

Resolved == \A i \in DOMAIN Given : Rev(Cur, Given[i]) # 0

\* Reachable from the base or from one of the given features
FromInputs(c) ==
    \/ c \in Anc(Rev(Cur, BASE))
    \/ \E i \in DOMAIN Given : c \in Anc(Rev(Cur, Given[i]))

-----------------------------------------------------------------------------
(* The config store: what the claims speak of *)

ValidName(n) == n # "" /\ Places(n, ":") = {}

ValidConfig(c) ==
    /\ ValidName(c.working_branch)
    /\ ValidName(c.base_branch)
    /\ \A i \in DOMAIN c.feature_branches : ValidName(c.feature_branches[i])

\* C21: for every KnitConfig whose names are non-empty and hold no ":",
\* with any number of feature branches, parsing what _serialize_config
\* gives returns that KnitConfig.
C21_ParseSerializeRoundTrip ==
    (call.op = "parse_serialized" /\ ValidConfig(call.config)) =>
        /\ call.raised = ""
        /\ call.ret_config = call.config

C21_Witness ==
    /\ call.op = "parse_serialized"
    /\ ValidConfig(call.config)
    /\ call.config.working_branch = "mn"
    /\ Len(call.config.feature_branches) = 2
    /\ call.ret_value = "mn:w:w:mn"
    /\ call.ret_config = call.config

\* A text of the form working:base:feature1:..., every name non-empty, or
\* of the form working:base: that ends in one empty segment
WellFormed(s) ==
    /\ Places(s, ":") # {}
    /\ 1 \notin Places(s, ":")
    /\ \A i \in Places(s, ":") : i + 1 \notin Places(s, ":")
    /\ Len(s) \in Places(s, ":") => Cardinality(Places(s, ":")) = 2

\* C22: for every well-formed persisted text, the form working:base: with
\* its trailing empty segment included, serializing what _parse_config
\* gives returns that text.
C22_SerializeParseRoundTrip ==
    (call.op = "serialize_parsed" /\ WellFormed(call.value)) =>
        call.ret_value = call.value

\* C23: _parse_config raises on every text of fewer than two colon-delimited
\* segments and returns a KnitConfig for every text of two or more.
C23_ParseRejectsShort ==
    call.op = "_parse_config" =>
        (call.raised # "" <=> Cardinality(Places(call.value, ":")) + 1 < 2)

C23_Witness ==
    /\ call.op = "_parse_config"
    /\ call.raised = "KnitError"
    /\ Len(call.value) >= 2

\* C24: after any init_knit, add_branch and remove_branch calls, whatever the
\* names given, the feature list of every stored config holds no branch
\* twice, nor the config's working branch, nor its base branch.
C24_FeatureListInvariant ==
    \A w \in CfgWorking :
        is_configured(gitconfig, w) =>
            LET config == get_config(gitconfig, w)
            IN  /\ NoDuplicates(config.feature_branches)
                /\ config.working_branch \notin Range(config.feature_branches)
                /\ config.base_branch \notin Range(config.feature_branches)

\* C25: init_knit for a working branch that has a stored config raises and
\* leaves the stored config as it was.
C25_InitKnitNoOverwrite ==
    [][(call'.op = "init_knit" /\ is_configured(gitconfig, call'.working)) =>
           /\ call'.raised # ""
           /\ gitconfig' = gitconfig]_vars

\* C26: add_branch(w, b) raises when b is in w's feature list or w has no
\* config, and then leaves the store as it was; otherwise w's feature list
\* becomes the list it was with b appended.
C26_AddBranchAppends ==
    [][call'.op = "add_branch" =>
           IF \/ ~is_configured(gitconfig, call'.working)
              \/ call'.branch \in
                     Range(get_config(gitconfig, call'.working).feature_branches)
           THEN /\ call'.raised # ""
                /\ gitconfig' = gitconfig
           ELSE /\ call'.raised = ""
                /\ is_configured(gitconfig', call'.working)
                /\ get_config(gitconfig', call'.working).feature_branches =
                       Append(get_config(gitconfig, call'.working).feature_branches,
                              call'.branch)]_vars

C26_Witness ==
    /\ call.op = "add_branch"
    /\ call.raised = ""
    /\ call.branch = "wk"
    /\ get_config(gitconfig, call.working).feature_branches = <<"f", "m", "wk">>

\* C27: remove_branch(w, b) raises when b is not in w's feature list and then
\* leaves the store as it was; otherwise w's config keeps its working and
\* base branch and its feature list is the list it was without b, the other
\* entries in the order they had.
C27_RemoveBranchKeepsOrder ==
    [][call'.op = "remove_branch" =>
           IF \/ ~is_configured(gitconfig, call'.working)
              \/ call'.branch \notin
                     Range(get_config(gitconfig, call'.working).feature_branches)
           THEN /\ call'.raised # ""
                /\ gitconfig' = gitconfig
           ELSE LET old == get_config(gitconfig, call'.working)
                IN  /\ call'.raised = ""
                    /\ is_configured(gitconfig', call'.working)
                    /\ get_config(gitconfig', call'.working) =
                           KnitConfig(old.working_branch, old.base_branch,
                                      SelectSeq(old.feature_branches,
                                                LAMBDA f : f # call'.branch))]_vars

C27_Witness ==
    /\ call.op = "remove_branch"
    /\ call.raised = ""
    /\ call.branch = "m"
    /\ get_config(gitconfig, call.working).feature_branches = <<"f", "wk">>

SameConfig(G1, G2, w) ==
    /\ is_configured(G1, w) <=> is_configured(G2, w)
    /\ is_configured(G1, w) => get_config(G1, w) = get_config(G2, w)

\* C29: after any init_knit, add_branch, remove_branch and delete_config
\* calls, get_config(w) succeeds exactly when list_working_branches holds w,
\* which is exactly when w was initialized and not deleted since: w comes to
\* have a config by init_knit(w) and comes to have none by delete_config(w),
\* and by no other call; get_config after init_knit(w, b, fs) returns
\* (w, b, fs); and delete_config(w) leaves the config of every other working
\* branch as it was.
C29_Lifecycle ==
    [][/\ \A w \in CfgWorking :
             /\ is_configured(gitconfig', w) <=> w \in list_working_branches(gitconfig')
             /\ (call'.op = "init_knit" /\ call'.working = w /\ call'.raised = "") =>
                    is_configured(gitconfig', w)
             /\ (call'.op = "delete_config" /\ call'.working = w) =>
                    ~is_configured(gitconfig', w)
             /\ ~(call'.op \in {"init_knit", "delete_config"} /\ call'.working = w) =>
                    (is_configured(gitconfig', w) <=> is_configured(gitconfig, w))
       /\ (call'.op = "init_knit" /\ call'.raised = "") =>
             get_config(gitconfig', call'.working) =
                 KnitConfig(call'.working, call'.base, call'.features)
       /\ call'.op = "delete_config" =>
             \A v \in CfgWorking \ {call'.working} :
                 SameConfig(gitconfig, gitconfig', v)]_vars

\* C30: in the function-based store, get_config after init_knit(w, b, fs)
\* returns KnitConfig(w, b, fs), every feature there in the order given, and
\* after a following add_branch(w, f) the features it had followed by f.
C30_FnStoreKeepsFeatures ==
    [][/\ call'.op = "fn_init_knit" =>
             /\ call'.raised = ""
             /\ fn_get_config(gitconfig', call'.working) =
                    [found |-> TRUE,
                     config |-> KnitConfig(call'.working, call'.base, call'.features)]
       /\ (/\ call'.op = "fn_add_branch"
           /\ fn_get_config(gitconfig, call'.working).found
           /\ fn_branch_exists(Cur, call'.branch)
           /\ call'.branch \notin
                  Range(fn_get_config(gitconfig, call'.working).config.feature_branches)) =>
             /\ call'.raised = ""
             /\ fn_get_config(gitconfig', call'.working).config.feature_branches =
                    Append(fn_get_config(gitconfig, call'.working).config.feature_branches,
                           call'.branch)]_vars

-----------------------------------------------------------------------------
(* Preconditions, recovery state and the commands: what the claims speak of *)

\* The repository is as it was when the running command was called
Untouched ==
    /\ refs = pre.refs
    /\ head = pre.head
    /\ stash = pre.stash
    /\ wt = pre.wt
    /\ Len(commits) = pre.ncommits
    /\ unmerged = pre.unmerged
    /\ inprog = pre.inprog

DirtyAtCall == pre.wt # "clean" \/ pre.unmerged

\* C31: the function-based rebuild_working_branch called with a dirty working
\* tree raises UncommittedChangesError at once, and nothing has changed: no
\* stash entry pushed, no branch created, deleted or moved, no checkout done.
C31_DirtyTreeRefused ==
    (pc # "idle" /\ DirtyAtCall) =>
        /\ pc = "failed"
        /\ err.kind = "UncommittedChangesError"
        /\ Untouched

C31_Witness ==
    /\ pc = "failed"
    /\ err.kind = "UncommittedChangesError"
    /\ pre.wt = "x"
    /\ FnTempName(WORK) \notin DOMAIN refs

\* C33: the init command given a feature list naming a branch that does not
\* exist leaves the repository as it was: no config stored for the working
\* branch, no working branch created, the current branch unchanged, nothing
\* merged.
C33_InitMissingFeatureUntouched ==
    [][\A fs \in FeatureLists :
          (KnitInit(fs) /\ \E i \in DOMAIN fs : ~branch_exists(Cur, fs[i])) =>
              /\ gitconfig' = gitconfig
              /\ refs' = refs
              /\ head' = head
              /\ commits' = commits]_vars

\* A precondition of the move that is running did not hold when it was
\* called: the target a feature branch of the knit, a clean tree, a commit
\* reference that resolves
MoveRefused ==
    \/ call.branch \notin Range(call.config.feature_branches)
    \/ DirtyAtCall
    \/ \A c \in 1..pre.ncommits : ToString(c) # call.value

\* C34: move with a target that is not a feature branch of the knit, with a
\* dirty working tree (UncommittedChangesError unless the target is refused
\* first) or with a commit that cannot be found fails at once: no checkout,
\* cherry-pick or rebuild has run, and every ref, the current branch, the
\* tree and the stash are as they were.
C34_MoveChecksFirst ==
    (call.op = "move" /\ pc # "idle" /\ MoveRefused) =>
        /\ pc = "failed"
        /\ err.kind \in {"ClickException", "UncommittedChangesError"}
        /\ (call.branch \in Range(call.config.feature_branches) /\ DirtyAtCall) =>
               err.kind = "UncommittedChangesError"
        /\ Untouched
        /\ nrebuilds = 0

C34_Witness ==
    /\ pc = "failed"
    /\ call.op = "move"
    /\ err.kind = "UncommittedChangesError"
    /\ pre.wt = "x"
    /\ head = pre.head
    /\ refs = pre.refs

\* A function-based classifier has just been applied
FnClassified ==
    /\ pc = "done"
    /\ call.op \in {"get_local_commits", "get_local_working_branch_commits"}

\* C35: the list a function-based classifier returns is oldest first: no
\* commit of the list comes before one of its ancestors.
C35_FnOldestFirst ==
    FnClassified =>
        \A i, j \in DOMAIN rb.saved_local_commits :
            i < j => rb.saved_local_commits[j] \notin Anc(rb.saved_local_commits[i])

\* C36 as stated: with HEAD at the working branch's tip, get_local_commits
\* selects the same set of commits as GitExecutor's
\* get_local_working_branch_commits, for every history and feature list.
C36_ClassifiersAgree ==
    (pc = "done" /\ call.op = "get_local_commits") =>
        Range(rb.saved_local_commits) =
            Range(get_local_working_branch_commits(Cur, WORK, BASE,
                                                   rb.config.feature_branches))

\* C36: they select the same set whenever every feature branch listed exists.
C36_ClassifiersAgreeOnExisting ==
    (/\ pc = "done"
     /\ call.op = "get_local_commits"
     /\ \A i \in DOMAIN rb.config.feature_branches :
            branch_exists(Cur, rb.config.feature_branches[i])) =>
        Range(rb.saved_local_commits) =
            Range(get_local_working_branch_commits(Cur, WORK, BASE,
                                                   rb.config.feature_branches))

C36_Witness ==
    /\ pc = "done"
    /\ call.op = "get_local_commits"
    /\ rb.config.feature_branches = <<"b1">>
    /\ branch_exists(Cur, "b1")
    /\ Len(rb.saved_local_commits) = 1
    /\ \E c \in Anc(WorkTip) : IsMerge(commits, c)
    /\ Anc(Rev(Cur, "b1")) \ Anc(Rev(Cur, BASE)) # {}

\* C37: when the add command has finished, the branch is in the stored
\* feature list only if the working branch contains it: an add that failed
\* (its merge conflicted) leaves the stored config as it was.
C37_AddListsOnlyMerged ==
    [][\A b \in FeatureNames :
          KnitAdd(b) =>
              \/ gitconfig' = gitconfig
              \/ Rev(Cur, b) \in AncIn(commits', refs'[WORK])]_vars

\* The backup refs that exist now and did not when rebuild was called
BackupsMade == {b \in DOMAIN refs : StartsWith(b, "knit/backup/")} \ DOMAIN pre.refs

\* The steps of a rebuild from the creation of the temporary branch up to the
\* deletion of the backup ref
BackupDue == {"rb_temp", "rb_cotemp", "rb_feature", "rb_pick", "rb_publish",
              "rb_restore", "rb_deltemp", "rb_delbackup"}

BackupNames == {BackupName(WORK, c) : c \in 1..Len(commits)}

Leftovers(P) == DOMAIN P.refs \cap ({TempName(WORK)} \cup BackupNames)

\* every entry of the older stack is still there, below what was pushed since
StashKept(older, now) ==
    /\ Len(now) >= Len(older)
    /\ SubSeq(now, Len(now) - Len(older) + 1, Len(now)) = older

\* C39 as stated: a rebuild started while a temporary branch or a backup ref
\* of an earlier halted rebuild exists does not succeed, and while it runs and
\* when it has failed the working branch ref is where it was, every leftover
\* ref is where it was and every stash entry that existed is still on the stack.
C39_RecoveryStateKept ==
    (pc # "idle" /\ Leftovers(pre) # {}) =>
        /\ pc # "done"
        /\ Rev(Cur, WORK) = Rev(pre, WORK)
        /\ \A b \in Leftovers(pre) : b \in DOMAIN refs /\ refs[b] = pre.refs[b]
        /\ StashKept(pre.stash, stash)

\* the names this rebuild needs are taken: the temporary branch, or the backup
\* ref of the working branch's tip at the call
NamesTaken(P) ==
    \/ TempName(WORK) \in DOMAIN P.refs
    \/ BackupName(WORK, Rev(P, WORK)) \in DOMAIN P.refs

\* C39: a rebuild started with recovery state of an earlier halted rebuild
\* left over never deletes or moves a leftover temporary branch or backup ref
\* and never drops a stash entry that existed; and when the temporary branch,
\* or the backup ref of the working branch's current tip, is among them, the
\* rebuild does not succeed and the working branch ref stays where it was.
C39_LeftoversKept ==
    (pc # "idle" /\ Leftovers(pre) # {}) =>
        /\ \A b \in Leftovers(pre) : b \in DOMAIN refs /\ refs[b] = pre.refs[b]
        /\ StashKept(pre.stash, stash)
        /\ NamesTaken(pre) => pc # "done" /\ Rev(Cur, WORK) = Rev(pre, WORK)

C39_Witness ==
    /\ pc = "failed"
    /\ nrebuilds = 2
    /\ TempName(WORK) \in Leftovers(pre)
    /\ Leftovers(pre) \cap BackupNames # {}
    /\ pre.stash # <<>>
    /\ head = BASE
    /\ pre.head = WORK

\* C38: the function-based rebuild_working_branch never pops a stash entry it
\* did not push: during the call and after it, failed or not, every entry the
\* stack held at the call is still there, in its place from the bottom.
C38_FnStashKept ==
    pc # "idle" => StashKept(pre.stash, stash)

====
